---- MODULE Spec2Model ----
(***************************************************************************)
(* A model of the Fjord language pipeline (arzg/fjord): the recursive-     *)
(* descent / precedence-climbing parser that drives a green-node builder,  *)
(* the AST views over the resulting syntax tree, and the tree-walking      *)
(* evaluator.                                                              *)
(*                                                                         *)
(* The parser is modelled as a machine with an explicit call stack: every  *)
(* frame is one activation of a parser function, positioned at one of its  *)
(* program points.  One action models one straight-line stretch of code    *)
(* between two calls into other parser functions.                          *)
(***************************************************************************)
EXTENDS Integers, Sequences, FiniteSets, TLC

VARIABLES
    input,    \* the lexeme stream handed to Parser::new
    p,        \* the Parser struct: lexer, builder, errors, last_lexeme_range
    stack,    \* the call stack of parser functions, innermost frame last
    output,   \* the ParseOutput once Parser::parse has returned
    env,      \* the Env handed to ParseOutput::eval
    result,   \* what ParseOutput::eval returned
    log       \* what the evaluation did, in order

parserVars == <<input, p, stack, output>>

evalVars == <<env, result, log>>

vars == <<input, p, stack, output, env, result, log>>

-----------------------------------------------------------------------------
(* Bounds of the model.                                                    *)

\* Longest lexeme stream drawn freely from the alphabet.
MaxLen == 3
\* Most binary operators in a generated operator chain.
MaxOps == 3
\* Most syntax errors the model records; later pushes leave the list as is.
MaxErrors == 8

-----------------------------------------------------------------------------
(* Syntax kinds and lexemes.                                               *)

None == "None"

TokenKinds ==
    { "Atom", "Digits", "StringLiteral", "Dollar", "Pipe", "Equals", "Let",
      "Plus", "Minus", "Star", "Slash", "Whitespace", "Eol", "Error" }

\* The source text a lexeme of each kind carries in the generated inputs.
TextOf(kind) ==
    CASE kind = "Atom"          -> "x"
      [] kind = "Digits"        -> "7"
      [] kind = "StringLiteral" -> "\"s\""
      [] kind = "Dollar"        -> "$"
      [] kind = "Pipe"          -> "|"
      [] kind = "Equals"        -> "="
      [] kind = "Let"           -> "let"
      [] kind = "Plus"          -> "+"
      [] kind = "Minus"         -> "-"
      [] kind = "Star"          -> "*"
      [] kind = "Slash"         -> "/"
      [] kind = "Whitespace"    -> " "
      [] kind = "Eol"           -> "\n"
      [] OTHER                  -> "#"

Tok(kind, text) == [kind |-> kind, text |-> text]

K(kind) == Tok(kind, TextOf(kind))

RECURSIVE OffsetOf(_, _)
\* Byte offset at which the i-th text of a stream starts.
OffsetOf(toks, i) ==
    IF i <= 1 THEN 0 ELSE OffsetOf(toks, i - 1) + Len(toks[i - 1].text)

\* The lexer's output for a stream of (kind, text): each lexeme carries its
\* kind, its exact text and its byte range.
Lex(toks) ==
    [i \in 1..Len(toks) |->
        [kind  |-> toks[i].kind,
         text  |-> toks[i].text,
         range |-> <<OffsetOf(toks, i), OffsetOf(toks, i) + Len(toks[i].text)>>]]

-----------------------------------------------------------------------------
(* The green-node builder.                                                 *)

Token(kind, text) == [isToken |-> TRUE, kind |-> kind, text |-> text, children |-> <<>>]

Node(kind, children) == [isToken |-> FALSE, kind |-> kind, text |-> "", children |-> children]

NewBuilder == [parents |-> <<>>, children |-> <<>>]

BuilderToken(b, kind, text) ==
    [b EXCEPT !.children = Append(@, Token(kind, text))]

BuilderStartNode(b, kind) ==
    [b EXCEPT !.parents = Append(@, [kind |-> kind, first_child |-> Len(b.children)])]

BuilderCheckpoint(b) == Len(b.children)

BuilderStartNodeAt(b, checkpoint, kind) ==
    [b EXCEPT !.parents = Append(@, [kind |-> kind, first_child |-> checkpoint])]

BuilderFinishNode(b) ==
    LET top   == b.parents[Len(b.parents)]
        kids  == SubSeq(b.children, top.first_child + 1, Len(b.children))
        kept  == SubSeq(b.children, 1, top.first_child)
    IN  [parents  |-> SubSeq(b.parents, 1, Len(b.parents) - 1),
         children |-> Append(kept, Node(top.kind, kids))]

BuilderFinish(b) == b.children[1]

-----------------------------------------------------------------------------
(* The Parser struct and its methods.                                      *)

NewParser(lexemes) ==
    [lexer             |-> lexemes,
     builder           |-> NewBuilder,
     errors            |-> <<>>,
     last_lexeme_range |-> <<0, 0>>]

Peek(q) == IF q.lexer = <<>> THEN None ELSE q.lexer[1].kind

AtEnd(q) == q.lexer = <<>>

AtEndOrEol(q) == AtEnd(q) \/ Peek(q) = "Eol"

Bump(q) ==
    LET lexeme == q.lexer[1]
    IN  [q EXCEPT !.lexer = Tail(@),
                  !.builder = BuilderToken(@, lexeme.kind, lexeme.text),
                  !.last_lexeme_range = lexeme.range]

RECURSIVE Skip(_, _)
Skip(q, kinds) ==
    IF AtEnd(q) THEN q
    ELSE IF Peek(q) \in kinds THEN Skip(Bump(q), kinds)
    ELSE q

SkipWs(q) == Skip(q, {"Whitespace"})

SkipWsAndEol(q) == Skip(q, {"Whitespace", "Eol"})

PushError(errors, message) ==
    IF Len(errors) < MaxErrors THEN Append(errors, message) ELSE errors

\* Error as it would be if the skipped lexeme were taken from the lexer and
\* never handed to the builder.
ErrorDropsLexeme(q, message) ==
    LET pushed == [q EXCEPT !.errors = PushError(@, message)]
    IN  IF Peek(q) \in {"Eol", None} THEN pushed
        ELSE [pushed EXCEPT !.lexer = Tail(@),
                            !.last_lexeme_range = q.lexer[1].range]

\* Error as it would be if only the end of input, not an end-of-line, kept
\* it from consuming.
ErrorConsumesEol(q, message) ==
    LET pushed == [q EXCEPT !.errors = PushError(@, message)]
    IN  IF Peek(q) = None THEN pushed
        ELSE [pushed EXCEPT !.lexer = Tail(@),
                            !.builder = BuilderToken(@, "Error", q.lexer[1].text),
                            !.last_lexeme_range = q.lexer[1].range]

Error(q, message) ==
    LET pushed == [q EXCEPT !.errors = PushError(@, message)]
    IN  IF Peek(q) \in {"Eol", None} THEN pushed
        ELSE LET lexeme == q.lexer[1]
             IN  [pushed EXCEPT !.lexer = Tail(@),
                                !.builder = BuilderToken(@, "Error", lexeme.text),
                                !.last_lexeme_range = lexeme.range]

StartNode(q, kind) == [q EXCEPT !.builder = BuilderStartNode(@, kind)]

StartNodeAt(q, checkpoint, kind) ==
    [q EXCEPT !.builder = BuilderStartNodeAt(@, checkpoint, kind)]

FinishNode(q) == [q EXCEPT !.builder = BuilderFinishNode(@)]

-----------------------------------------------------------------------------
(* Generated inputs.                                                       *)

\* Kinds the freely generated streams draw from: one representative of each
\* class of kinds the parser tells apart (the operators differ only in
\* chains, which ChainInputs generates).
FreeKinds ==
    { "Atom", "Digits", "Dollar", "Pipe", "Equals", "Let", "Plus",
      "Whitespace", "Eol", "Error" }

OperatorKinds == {"Plus", "Minus", "Star", "Slash"}

RECURSIVE SeqsUpTo(_, _)
\* Every sequence over S of length at most n.
SeqsUpTo(S, n) ==
    IF n = 0 THEN {<<>>}
    ELSE LET shorter == SeqsUpTo(S, n - 1)
         IN  shorter \cup {Append(s, x) : s \in {t \in shorter : Len(t) = n - 1}, x \in S}

RECURSIVE Spaced(_)
\* The stream with one Whitespace lexeme between neighbours.
Spaced(toks) ==
    IF Len(toks) <= 1 THEN toks
    ELSE <<toks[1], K("Whitespace")>> \o Spaced(Tail(toks))

FreeInputs == {[i \in 1..Len(s) |-> K(s[i])] : s \in SeqsUpTo(FreeKinds, MaxLen)}

\* Digit runs used as the operands of generated operator chains.
OperandPools == {<<"10", "5", "3", "2">>, <<"2", "3", "4", "9">>}

Operand(pool, i) == Tok("Digits", pool[((i - 1) % Len(pool)) + 1])

RECURSIVE Chain(_, _)
\* operand (operator operand)*, the operators taken from ops in order.
Chain(pool, ops) ==
    IF ops = <<>> THEN <<Operand(pool, 1)>>
    ELSE Chain(pool, SubSeq(ops, 1, Len(ops) - 1))
            \o <<K(ops[Len(ops)]), Operand(pool, Len(ops) + 1)>>

ChainInputs ==
    LET chains == {Chain(pool, ops) : pool \in OperandPools,
                                      ops \in SeqsUpTo(OperatorKinds, MaxOps)}
    IN  chains \cup {Spaced(c) : c \in chains}

\* `let X Y Z`: every choice of one lexeme for the name, the equals sign and
\* the right-hand side.
LetShape(x, y, z) == Spaced(<<K("Let"), K(x), K(y), K(z)>>)

LetInputs ==
    {LetShape(x, y, z) : x \in TokenKinds \ {"Whitespace"},
                         y \in TokenKinds \ {"Whitespace"},
                         z \in TokenKinds \ {"Whitespace"}}

\* `f a b c`: a call followed by lexemes in argument position.
CallArgKinds == {"Atom", "Digits", "StringLiteral", "Dollar", "Plus", "Slash", "Eol", "Equals"}

CallInputs ==
    {Spaced(<<Tok("Atom", "f")>> \o [i \in 1..Len(s) |-> K(s[i])]) :
        s \in SeqsUpTo(CallArgKinds, MaxLen)}

\* Inputs of the repository's own parser tests.
LetFiveEqualsTen ==
    Spaced(<<K("Let"), Tok("Digits", "5"), K("Equals"), Tok("Digits", "10")>>)

LetXJunkTen ==
    Spaced(<<K("Let"), Tok("Atom", "x"), Tok("Error", "_"), Tok("Digits", "10")>>)

LetAEqualsEquals == Spaced(<<K("Let"), Tok("Atom", "a"), K("Equals"), K("Equals")>>)

DollarLet == <<K("Dollar"), K("Let")>>

CallThenOperator ==
    Spaced(<<Tok("Atom", "f"), Tok("Atom", "x"), K("Plus"), Tok("Atom", "y")>>)

\* `10 - 5 - 3 - 2`
ShowingAssociativity ==
    Spaced(<<Tok("Digits", "10"), K("Minus"), Tok("Digits", "5"), K("Minus"),
             Tok("Digits", "3"), K("Minus"), Tok("Digits", "2")>>)

\* `2 + 3 * 4`
ShowingPrecedence ==
    Spaced(<<Tok("Digits", "2"), K("Plus"), Tok("Digits", "3"), K("Star"),
             Tok("Digits", "4")>>)

\* Inputs of the evaluator's tests of a Root.
MultipleExpressions ==
    <<K("Eol"), Tok("Digits", "5"), K("Eol"), Tok("Digits", "10"), K("Eol"),
      Tok("StringLiteral", "\"foobar\""), K("Eol"), Tok("Digits", "2")>>

OneStatement == Spaced(<<K("Let"), Tok("Atom", "x"), K("Equals"), Tok("Digits", "1")>>)

TestInputs ==
    { LetFiveEqualsTen, LetXJunkTen, LetAEqualsEquals, DollarLet, CallThenOperator,
      ShowingAssociativity, ShowingPrecedence, MultipleExpressions, OneStatement }

Inputs ==
    {Lex(toks) : toks \in FreeInputs \cup ChainInputs \cup LetInputs
                           \cup CallInputs \cup TestInputs}

-----------------------------------------------------------------------------
(* The call stack.                                                         *)

Frame(pc, min_bp, message) ==
    [pc |-> pc, min_bp |-> min_bp, checkpoint |-> 0, message |-> message]

Top == stack[Len(stack)]

At(pc) == stack # <<>> /\ Top.pc = pc

Caller == SubSeq(stack, 1, Len(stack) - 1)

\* The running function moves to another of its program points.
Goto(pc) == Append(Caller, [Top EXCEPT !.pc = pc])

\* The running function calls callee and resumes at ret.
Call(callee, ret) == Append(Goto(ret), callee)

\* The running function ends by calling callee: callee returns to its caller.
TailCall(callee) == Append(Caller, callee)

Return == Caller

\* Env::new without commands; nothing is evaluated while the parser runs.
NoEnv == [bindings |-> <<>>, parent |-> <<>>, commands |-> <<>>]

NoResult == [tag |-> None]

NoOutput == [green_node |-> Node(None, <<>>), errors |-> <<>>, returned |-> FALSE]

Done == output.returned

-----------------------------------------------------------------------------
(* Operators and binding powers.                                           *)

\* src/lib.rs Op, as produced by the match in parse_expr_bp.
OpOfKind(kind) ==
    CASE kind = "Plus"  -> "Add"
      [] kind = "Minus" -> "Sub"
      [] kind = "Star"  -> "Mul"
      [] kind = "Slash" -> "Div"

\* Binding powers whose right side is the weaker one.
infix_bp_right_leaning(op) ==
    IF op \in {"Add", "Sub"} THEN <<2, 1>> ELSE <<4, 3>>

\* Binding powers that rank the additive operators above the others.
infix_bp_additive_first(op) ==
    IF op \in {"Add", "Sub"} THEN <<3, 4>> ELSE <<1, 2>>

infix_bp(op) ==
    IF op \in {"Add", "Sub"} THEN <<1, 2>> ELSE <<3, 4>>

-----------------------------------------------------------------------------
(* Parser::parse.                                                          *)

Init ==
    /\ input \in Inputs
    /\ p = NewParser(input)
    /\ stack = <<Frame("parse", 0, "")>>
    /\ output = NoOutput
    /\ env = NoEnv
    /\ result = NoResult
    /\ log = <<>>

Parse ==
    /\ At("parse")
    /\ p' = SkipWsAndEol(StartNode(p, "Root"))
    /\ stack' = Goto("parse_loop")
    /\ UNCHANGED <<input, output, evalVars>>

ParseLoop ==
    /\ At("parse_loop")
    /\ stack' = IF AtEnd(p) THEN Goto("parse_finish")
                ELSE Call(Frame("parse_item", 0, ""), "parse_after_item")
    /\ UNCHANGED <<input, p, output, evalVars>>

ParseAfterItem ==
    /\ At("parse_after_item")
    /\ LET q == SkipWs(p)
       IN  CASE Peek(q) = "Eol" ->
                    /\ p' = Bump(q)
                    /\ stack' = Goto("parse_loop")
             [] Peek(q) = None ->
                    /\ p' = q
                    /\ stack' = Goto("parse_finish")
             [] OTHER ->
                    /\ p' = q
                    /\ stack' = Call(Frame("error", 0, "expected end of line"), "parse_loop")
    /\ UNCHANGED <<input, output, evalVars>>

ParseFinish ==
    /\ At("parse_finish")
    /\ p' = FinishNode(p)
    /\ output' = [green_node |-> BuilderFinish(p'.builder),
                  errors     |-> p.errors,
                  returned   |-> TRUE]
    /\ stack' = Return
    /\ UNCHANGED <<input, evalVars>>

\* Parser::error, called with the message of the frame.
ErrorCall ==
    /\ At("error")
    /\ p' = Error(p, Top.message)
    /\ stack' = Return
    /\ UNCHANGED <<input, output, evalVars>>

parse_item ==
    /\ At("parse_item")
    /\ stack' = IF Peek(p) = "Let" THEN TailCall(Frame("parse_statement", 0, ""))
                ELSE TailCall(Frame("parse_expr_bp", 0, ""))
    /\ UNCHANGED <<input, p, output, evalVars>>

-----------------------------------------------------------------------------
(* parser/statement.rs                                                     *)

\* parse_statement as it would be if recovery from a junk binding name went
\* straight on to the right-hand side.
parse_statement_skips_equals ==
    /\ At("parse_statement")
    /\ LET q == SkipWs(Bump(StartNode(p, "BindingDef")))
       IN  IF Peek(q) = "Atom"
           THEN /\ p' = Bump(q)
                /\ stack' = Goto("statement_equals")
           ELSE /\ p' = q
                /\ stack' = Call(Frame("error", 0, "expected binding name"),
                                 "statement_expr")
    /\ UNCHANGED <<input, output, evalVars>>

parse_statement ==
    /\ At("parse_statement")
    /\ LET q == SkipWs(Bump(StartNode(p, "BindingDef")))
       IN  IF Peek(q) = "Atom"
           THEN /\ p' = Bump(q)
                /\ stack' = Goto("statement_equals")
           ELSE /\ p' = q
                /\ stack' = Call(Frame("error", 0, "expected binding name"),
                                 "statement_equals")
    /\ UNCHANGED <<input, output, evalVars>>

StatementEquals ==
    /\ At("statement_equals")
    /\ LET q == SkipWs(p)
       IN  IF Peek(q) = "Equals"
           THEN /\ p' = Bump(q)
                /\ stack' = Goto("statement_expr")
           ELSE /\ p' = q
                /\ stack' = Call(Frame("error", 0, "expected equals sign"),
                                 "statement_expr")
    /\ UNCHANGED <<input, output, evalVars>>

StatementExpr ==
    /\ At("statement_expr")
    /\ p' = SkipWs(p)
    /\ stack' = Call(Frame("parse_expr_bp", 0, ""), "statement_finish")
    /\ UNCHANGED <<input, output, evalVars>>

StatementFinish ==
    /\ At("statement_finish")
    /\ p' = FinishNode(p)
    /\ stack' = Return
    /\ UNCHANGED <<input, output, evalVars>>

-----------------------------------------------------------------------------
(* parser/expr.rs                                                          *)

parse_expr_bp ==
    /\ At("parse_expr_bp")
    /\ stack' = Append(Append(Caller, [Top EXCEPT !.pc = "expr_after_one",
                                                  !.checkpoint = BuilderCheckpoint(p.builder)]),
                       Frame("parse_one_expr", 0, ""))
    /\ UNCHANGED <<input, p, output, evalVars>>

ExprAfterOne ==
    /\ At("expr_after_one")
    /\ p' = SkipWs(p)
    /\ stack' = Goto("expr_operator")
    /\ UNCHANGED <<input, output, evalVars>>

ExprOperator ==
    /\ At("expr_operator")
    /\ CASE Peek(p) \in OperatorKinds ->
                LET bp == infix_bp(OpOfKind(Peek(p)))
                IN  IF bp[1] < Top.min_bp
                    THEN /\ p' = p
                         /\ stack' = Return
                    ELSE /\ p' = SkipWs(Bump(StartNodeAt(p, Top.checkpoint, "BinOp")))
                         /\ stack' = Call(Frame("parse_expr_bp", bp[2], ""),
                                          "expr_finish_bin_op")
         [] Peek(p) \in {"Eol", None} ->
                /\ p' = p
                /\ stack' = Return
         [] OTHER ->
                /\ p' = p
                /\ stack' = Call(Frame("error", 0, "expected operator"), "expr_operator")
    /\ UNCHANGED <<input, output, evalVars>>

ExprFinishBinOp ==
    /\ At("expr_finish_bin_op")
    /\ p' = FinishNode(p)
    /\ stack' = Goto("expr_operator")
    /\ UNCHANGED <<input, output, evalVars>>

parse_one_expr ==
    /\ At("parse_one_expr")
    /\ stack' =
        CASE Peek(p) \in {"Digits", "StringLiteral", "Dollar"} ->
                TailCall(Frame("parse_contained_expr", 0, ""))
          [] Peek(p) = "Atom" -> TailCall(Frame("parse_function_call", 0, ""))
          [] Peek(p) = "Pipe" -> TailCall(Frame("parse_lambda", 0, ""))
          [] OTHER -> TailCall(Frame("error", 0, "expected expression"))
    /\ UNCHANGED <<input, p, output, evalVars>>

parse_function_call ==
    /\ At("parse_function_call")
    /\ p' = StartNode(SkipWs(Bump(StartNode(p, "FunctionCall"))), "FunctionCallParams")
    /\ stack' = Goto("function_call_loop")
    /\ UNCHANGED <<input, output, evalVars>>

\* parse_function_call finishing FunctionCallParams but not FunctionCall when
\* the parameters end.
FunctionCallLoopFinishesOnce ==
    /\ At("function_call_loop")
    /\ IF AtEndOrEol(p)
       THEN /\ p' = FinishNode(p)
            /\ stack' = Return
       ELSE /\ p' = p
            /\ stack' = Call(Frame("parse_contained_expr", 0, ""),
                             "function_call_after_param")
    /\ UNCHANGED <<input, output, evalVars>>

FunctionCallLoop ==
    /\ At("function_call_loop")
    /\ IF AtEndOrEol(p)
       THEN /\ p' = FinishNode(FinishNode(p))
            /\ stack' = Return
       ELSE /\ p' = p
            /\ stack' = Call(Frame("parse_contained_expr", 0, ""),
                             "function_call_after_param")
    /\ UNCHANGED <<input, output, evalVars>>

FunctionCallAfterParam ==
    /\ At("function_call_after_param")
    /\ p' = SkipWs(p)
    /\ stack' = Goto("function_call_loop")
    /\ UNCHANGED <<input, output, evalVars>>

parse_lambda ==
    /\ At("parse_lambda")
    /\ p' = SkipWs(Bump(StartNode(StartNode(p, "Lambda"), "LambdaParams")))
    /\ stack' = Goto("lambda_loop")
    /\ UNCHANGED <<input, output, evalVars>>

LambdaLoop ==
    /\ At("lambda_loop")
    /\ CASE AtEnd(p) ->
                /\ p' = p
                /\ stack' = Goto("lambda_body")
         [] Peek(p) = "Atom" ->
                /\ p' = SkipWs(Bump(p))
                /\ stack' = Goto("lambda_loop")
         [] Peek(p) = "Pipe" ->
                /\ p' = Bump(p)
                /\ stack' = Goto("lambda_body")
         [] OTHER ->
                /\ p' = p
                /\ stack' = Call(Frame("error", 0, "expected atom or pipe"),
                                 "lambda_after_error")
    /\ UNCHANGED <<input, output, evalVars>>

LambdaAfterError ==
    /\ At("lambda_after_error")
    /\ p' = SkipWs(p)
    /\ stack' = Goto("lambda_loop")
    /\ UNCHANGED <<input, output, evalVars>>

LambdaBody ==
    /\ At("lambda_body")
    /\ p' = SkipWs(FinishNode(p))
    /\ stack' = Call(Frame("parse_expr_bp", 0, ""), "lambda_finish")
    /\ UNCHANGED <<input, output, evalVars>>

LambdaFinish ==
    /\ At("lambda_finish")
    /\ p' = FinishNode(p)
    /\ stack' = Return
    /\ UNCHANGED <<input, output, evalVars>>

parse_contained_expr ==
    /\ At("parse_contained_expr")
    /\ CASE Peek(p) \in {"Digits", "StringLiteral", "Atom"} ->
                /\ p' = Bump(p)
                /\ stack' = Return
         [] Peek(p) = "Dollar" ->
                /\ p' = p
                /\ stack' = TailCall(Frame("parse_binding_usage", 0, ""))
         [] OTHER ->
                /\ p' = p
                /\ stack' = TailCall(Frame("error", 0, "expected expression"))
    /\ UNCHANGED <<input, output, evalVars>>

parse_binding_usage ==
    /\ At("parse_binding_usage")
    /\ LET q == Bump(StartNode(p, "BindingUsage"))
       IN  IF Peek(q) = "Atom"
           THEN /\ p' = Bump(q)
                /\ stack' = Goto("binding_usage_finish")
           ELSE /\ p' = q
                /\ stack' = Call(Frame("error", 0, "expected atom"), "binding_usage_finish")
    /\ UNCHANGED <<input, output, evalVars>>

BindingUsageFinish ==
    /\ At("binding_usage_finish")
    /\ p' = FinishNode(p)
    /\ stack' = Return
    /\ UNCHANGED <<input, output, evalVars>>

-----------------------------------------------------------------------------
(* Syntax nodes: a green element together with its offset in the source.   *)

RECURSIVE TextLen(_), TextLenAll(_)
TextLen(element) ==
    IF element.isToken THEN Len(element.text) ELSE TextLenAll(element.children)

TextLenAll(elements) ==
    IF elements = <<>> THEN 0 ELSE TextLen(elements[1]) + TextLenAll(Tail(elements))

Syntax(green, offset) == [green |-> green, offset |-> offset]

\* SyntaxNode::new_root
NewRoot(green) == Syntax(green, 0)

text_range(node) == <<node.offset, node.offset + TextLen(node.green)>>

\* children_with_tokens: the child elements, each at its offset.
ChildrenWithTokens(node) ==
    [i \in 1..Len(node.green.children) |->
        Syntax(node.green.children[i],
               node.offset + TextLenAll(SubSeq(node.green.children, 1, i - 1)))]

-----------------------------------------------------------------------------
(* The AST views.                                                          *)

ExprNodeKinds == {"BinOp", "If", "FunctionCall", "Lambda", "BindingUsage", "Block"}

ExprTokenKinds == {"Atom", "Digits", "StringLiteral", "True", "False"}

\* Expr::cast
IsExpr(node) ==
    IF node.green.isToken THEN node.green.kind \in ExprTokenKinds
    ELSE node.green.kind \in ExprNodeKinds

IsBindingDef(node) == ~node.green.isToken /\ node.green.kind = "BindingDef"

\* Item::cast
IsItem(node) == IsBindingDef(node) \/ IsExpr(node)

\* The child elements for which a cast succeeds, in order.
ChildrenWhere(node, Cast(_)) == SelectSeq(ChildrenWithTokens(node), Cast)

\* Root::items and Block::items
Items(node) == ChildrenWhere(node, IsItem)

IsTokenOf(node, kinds) == node.green.isToken /\ node.green.kind \in kinds

\* An Option is a sequence of length 0 (None) or 1 (Some).
Nth(elements, n) == IF Len(elements) >= n THEN <<elements[n]>> ELSE <<>>

IsSome(option) == option # <<>>

Unwrap(option) == option[1]

IsNodeOf(node, kind) == ~node.green.isToken /\ node.green.kind = kind

\* The first Atom token among the children.
FirstAtom(node) == Nth(ChildrenWhere(node, LAMBDA c : IsTokenOf(c, {"Atom"})), 1)

\* BindingDef::binding_name
BindingDefName(node) == FirstAtom(node)

\* BindingDef::expr: the expression to the right of the equals sign.
BindingDefExpr(node) ==
    LET children == ChildrenWithTokens(node)
        equals   == {i \in 1..Len(children) : IsTokenOf(children[i], {"Equals"})}
        right    == {i \in 1..Len(children) :
                        IsExpr(children[i]) /\ \E j \in equals : j < i}
    IN  IF right = {} THEN <<>>
        ELSE <<children[CHOOSE i \in right : \A k \in right : i <= k]>>

\* BinOp::op, BinOp::lhs, BinOp::rhs
BinOpOp(node) == Nth(ChildrenWhere(node, LAMBDA c : IsTokenOf(c, OperatorKinds)), 1)

BinOpLhs(node) == Nth(ChildrenWhere(node, IsExpr), 1)

BinOpRhs(node) == Nth(ChildrenWhere(node, IsExpr), 2)

\* If::condition, If::true_branch, If::false_branch
IfCondition(node) == Nth(ChildrenWhere(node, IsExpr), 1)

IfTrueBranch(node) == Nth(ChildrenWhere(node, IsExpr), 2)

IfFalseBranch(node) == Nth(ChildrenWhere(node, IsExpr), 3)

\* FunctionCall::name, FunctionCall::params, FunctionCall::param_exprs
FunctionCallName(node) == FirstAtom(node)

FunctionCallParams(node) ==
    Nth(ChildrenWhere(node, LAMBDA c : IsNodeOf(c, "FunctionCallParams")), 1)

FunctionCallParamExprs(node) ==
    IF IsSome(FunctionCallParams(node))
    THEN <<ChildrenWhere(Unwrap(FunctionCallParams(node)), IsExpr)>>
    ELSE <<>>

\* Lambda::param_names, Lambda::body
LambdaParamNames(node) ==
    LET params == Nth(ChildrenWhere(node, LAMBDA c : IsNodeOf(c, "LambdaParams")), 1)
        atoms  == ChildrenWhere(Unwrap(params), LAMBDA c : IsTokenOf(c, {"Atom"}))
    IN  IF IsSome(params) THEN <<[i \in 1..Len(atoms) |-> atoms[i].green.text]>> ELSE <<>>

LambdaBodyExpr(node) == Nth(ChildrenWhere(node, IsExpr), 1)

\* BindingUsage::binding_name
BindingUsageName(node) == FirstAtom(node)

-----------------------------------------------------------------------------
(* Values.                                                                 *)

Nil == [ty |-> "Nil"]

Number(n) == [ty |-> "Number", number |-> n]

Str(text) == [ty |-> "Str", str |-> text]

Bool(b) == [ty |-> "Bool", bool |-> b]

LambdaVal(lambda) == [ty |-> "Lambda", lambda |-> lambda]

DigitChars == <<"0", "1", "2", "3", "4", "5", "6", "7", "8", "9">>

RECURSIVE FormatDigits(_)
\* The decimal digits of a natural number.
FormatDigits(n) ==
    IF n < 10 THEN DigitChars[n + 1]
    ELSE FormatDigits(n \div 10) \o DigitChars[(n % 10) + 1]

\* The text of a number, as Display writes an integer.
FormatNumber(n) == IF n < 0 THEN "-" \o FormatDigits(-n) ELSE FormatDigits(n)

\* Val::display_repr: Some for numbers and strings.
HasDisplayRepr(val) == val.ty \in {"Number", "Str"}

DisplayRepr(val) == IF val.ty = "Number" THEN FormatNumber(val.number) ELSE val.str

Ok(val) == [tag |-> "Ok", val |-> val]

\* An EvalErrorKind without fields.
ErrorKind(name) == [name |-> name]

Err(kind, range) == [tag |-> "Err", kind |-> kind, range |-> range]

\* An abort of the interpreter: a failed unwrap or an arithmetic panic.
Panic(what) == [tag |-> "Panic", what |-> what]

IsOk(res) == res.tag = "Ok"

-----------------------------------------------------------------------------
(* Environments: a scope and, through parent, the scopes around it.        *)

NoBindings == <<>>

NoParent == <<>>

\* Env::new with the given command cache.
NewEnv(commands) == [NoEnv EXCEPT !.commands = commands]

create_child(e) == [bindings |-> NoBindings, parent |-> e, commands |-> e.commands]

store_binding(e, name, val) ==
    [e EXCEPT !.bindings = [n \in DOMAIN e.bindings \cup {name} |->
                                IF n = name THEN val ELSE e.bindings[n]]]

RECURSIVE HasBinding(_, _), get_binding(_, _)
HasBinding(e, name) ==
    \/ name \in DOMAIN e.bindings
    \/ e.parent # NoParent /\ HasBinding(e.parent, name)

\* The value of the nearest scope that binds name; asked only when one does.
get_binding(e, name) ==
    IF name \in DOMAIN e.bindings THEN e.bindings[name] ELSE get_binding(e.parent, name)

\* A lookup that asks the command cache before the bindings.
get_command_or_func(e, name) ==
    IF name \in DOMAIN e.commands
    THEN [tag |-> "Command", path |-> e.commands[name]]
    ELSE IF HasBinding(e, name) /\ get_binding(e, name).ty = "Lambda"
    THEN [tag |-> "Func", lambda |-> get_binding(e, name).lambda]
    ELSE IF HasBinding(e, name)
    THEN [tag |-> "Err", kind |-> [name |-> "CallNonLambda", ty |-> get_binding(e, name).ty]]
    ELSE [tag |-> "Err", kind |-> ErrorKind("FuncOrCommandDoesNotExist")]

\* Env::get_func_or_command
get_func_or_command(e, name) ==
    IF HasBinding(e, name) /\ get_binding(e, name).ty = "Lambda"
    THEN [tag |-> "Func", lambda |-> get_binding(e, name).lambda]
    ELSE IF name \in DOMAIN e.commands
    THEN [tag |-> "Command", path |-> e.commands[name]]
    ELSE IF HasBinding(e, name)
    THEN [tag |-> "Err", kind |-> [name |-> "CallNonLambda", ty |-> get_binding(e, name).ty]]
    ELSE [tag |-> "Err", kind |-> ErrorKind("FuncOrCommandDoesNotExist")]

-----------------------------------------------------------------------------
(* Evaluation.  Every eval takes the log so far and returns it extended,   *)
(* beside its Result; an eval of an item also returns the environment it   *)
(* has written to.                                                         *)

Out(res, lg) == [res |-> res, log |-> lg]

ItemOut(res, e, lg) == [res |-> res, env |-> e, log |-> lg]

RECURSIVE Depth(_)
\* The number of scopes around a scope.
Depth(e) == IF e.parent = NoParent THEN 0 ELSE 1 + Depth(e.parent)

DigitOf(char) == (CHOOSE d \in 1..Len(DigitChars) : DigitChars[d] = char) - 1

\* str::parse::<i32> of a run of digits.
RECURSIVE ParseDigits(_)
ParseDigits(text) ==
    IF Len(text) = 0 THEN 0
    ELSE ParseDigits(SubSeq(text, 1, Len(text) - 1)) * 10
         + DigitOf(SubSeq(text, Len(text), Len(text)))

Abs(n) == IF n < 0 THEN -n ELSE n

\* i32 division: the quotient is rounded towards zero.
Quotient(lhs, rhs) ==
    IF (lhs < 0) = (rhs < 0) THEN Abs(lhs) \div Abs(rhs) ELSE -(Abs(lhs) \div Abs(rhs))

Apply(op, lhs, rhs) ==
    CASE op = "Add" -> lhs + rhs
      [] op = "Sub" -> lhs - rhs
      [] op = "Mul" -> lhs * rhs
      [] op = "Div" -> Quotient(lhs, rhs)

\* Whether Command::status can start the program at a path.
Runnable(path) == path # "/gone"

\* A store of the parameters that keeps the last one only.
StoreLastOnly(e, names, vals) ==
    IF names = <<>> THEN e
    ELSE store_binding(e, names[Len(names)], vals[Len(vals)])

RECURSIVE StoreAll(_, _, _)
StoreAll(e, names, vals) ==
    IF names = <<>> THEN e
    ELSE StoreAll(store_binding(e, names[1], vals[1]), Tail(names), Tail(vals))

\* The last parameter value without a display representation, or 0.
LastUndisplayable(vals) ==
    IF \A i \in 1..Len(vals) : HasDisplayRepr(vals[i]) THEN 0
    ELSE CHOOSE i \in 1..Len(vals) :
            /\ ~HasDisplayRepr(vals[i])
            /\ \A j \in (i + 1)..Len(vals) : HasDisplayRepr(vals[j])

\* The first parameter value without a display representation, or 0.
FirstUndisplayable(vals) ==
    IF \A i \in 1..Len(vals) : HasDisplayRepr(vals[i]) THEN 0
    ELSE CHOOSE i \in 1..Len(vals) :
            /\ ~HasDisplayRepr(vals[i])
            /\ \A j \in 1..(i - 1) : HasDisplayRepr(vals[j])

AtomEval(node) == Str(node.green.text)

DigitsEval(node) == Number(ParseDigits(node.green.text))

\* Slice off quotes.
StringLiteralEval(node) ==
    Str(SubSeq(node.green.text, 2, Len(node.green.text) - 1))

\* A closure that stops at the first item.
at_first(idx, num_items) == idx = 0

at_last(idx, num_items) == idx = num_items - 1

\* Each eval is written as the call it makes followed by what it does with
\* the call's result, so that every call stands in one place.
RECURSIVE ExprEval(_, _, _), EvalParams(_, _, _), EvalItemsLoop(_, _, _, _)

\* A usage that reports a missing binding at the range of the name, without
\* the `$`.
BindingUsageEvalAtName(node, e, lg) ==
    IF ~IsSome(BindingUsageName(node)) THEN Out(Panic("unwrap"), lg)
    ELSE LET binding_name == Unwrap(BindingUsageName(node)).green.text
         IN  IF HasBinding(e, binding_name)
             THEN Out(Ok(get_binding(e, binding_name)), lg)
             ELSE Out(Err(ErrorKind("BindingDoesNotExist"),
                          text_range(Unwrap(BindingUsageName(node)))), lg)

BindingUsageEval(node, e, lg) ==
    IF ~IsSome(BindingUsageName(node)) THEN Out(Panic("unwrap"), lg)
    ELSE LET binding_name == Unwrap(BindingUsageName(node)).green.text
         IN  IF HasBinding(e, binding_name)
             THEN Out(Ok(get_binding(e, binding_name)), lg)
             ELSE Out(Err(ErrorKind("BindingDoesNotExist"), text_range(node)), lg)

\* A match that takes the type of each operand for that of the other.
BinOpMatchSwapped(node, op, lhs, rhs, lg) ==
    IF lhs.ty = "Number" /\ rhs.ty = "Number"
    THEN IF op = "Div" /\ rhs.number = 0
         THEN Out(Panic("attempt to divide by zero"), lg)
         ELSE Out(Ok(Number(Apply(op, lhs.number, rhs.number))), lg)
    ELSE Out(Err([name |-> "BinOpOnNonNumbers", lhs_ty |-> rhs.ty, rhs_ty |-> lhs.ty],
                 text_range(node)),
             lg)

\* BinOp::eval from the match on the two operand values.
BinOpMatch(node, op, lhs, rhs, lg) ==
    IF lhs.ty = "Number" /\ rhs.ty = "Number"
    THEN IF op = "Div" /\ rhs.number = 0
         THEN Out(Panic("attempt to divide by zero"), lg)
         ELSE Out(Ok(Number(Apply(op, lhs.number, rhs.number))), lg)
    ELSE Out(Err([name |-> "BinOpOnNonNumbers", lhs_ty |-> lhs.ty, rhs_ty |-> rhs.ty],
                 text_range(node)),
             lg)

\* BinOp::eval once the right operand is evaluated.
BinOpAfterRhs(node, op, lhs, rhs) ==
    IF ~IsOk(rhs.res) THEN rhs
    ELSE BinOpMatch(node, op, lhs.res.val, rhs.res.val, rhs.log)

\* BinOp::eval once the left operand is evaluated.
BinOpAfterLhs(node, op, e, lhs) ==
    IF ~IsOk(lhs.res) THEN lhs
    ELSE IF ~IsSome(BinOpRhs(node)) THEN Out(Panic("unwrap"), lhs.log)
    ELSE BinOpAfterRhs(node, op, lhs, ExprEval(Unwrap(BinOpRhs(node)), e, lhs.log))

BinOpEval(node, e, lg) ==
    IF ~IsSome(BinOpOp(node)) \/ ~IsSome(BinOpLhs(node)) THEN Out(Panic("unwrap"), lg)
    ELSE BinOpAfterLhs(node, OpOfKind(Unwrap(BinOpOp(node)).green.kind), e,
                       ExprEval(Unwrap(BinOpLhs(node)), e, lg))

\* If::eval once one of the branches is chosen.
IfBranch(branch, e, lg) ==
    IF IsSome(branch) THEN ExprEval(Unwrap(branch), e, lg) ELSE Out(Panic("unwrap"), lg)

\* An If that reports a condition that is no Bool at the range of the whole
\* expression.
IfAfterConditionAtWholeIf(node, condition, e, cond) ==
    IF ~IsOk(cond.res) THEN cond
    ELSE IF cond.res.val.ty # "Bool"
    THEN Out(Err(ErrorKind("NonBoolCond"), text_range(node)), cond.log)
    ELSE IfBranch(IF cond.res.val.bool THEN IfTrueBranch(node) ELSE IfFalseBranch(node),
                  e, cond.log)

\* An If that takes the false branch when the condition is true.
IfAfterConditionSwapped(node, condition, e, cond) ==
    IF ~IsOk(cond.res) THEN cond
    ELSE IF cond.res.val.ty # "Bool"
    THEN Out(Err(ErrorKind("NonBoolCond"), text_range(condition)), cond.log)
    ELSE IfBranch(IF cond.res.val.bool THEN IfFalseBranch(node) ELSE IfTrueBranch(node),
                  e, cond.log)

\* If::eval once the condition is evaluated.
IfAfterCondition(node, condition, e, cond) ==
    IF ~IsOk(cond.res) THEN cond
    ELSE IF cond.res.val.ty # "Bool"
    THEN Out(Err(ErrorKind("NonBoolCond"), text_range(condition)), cond.log)
    ELSE IfBranch(IF cond.res.val.bool THEN IfTrueBranch(node) ELSE IfFalseBranch(node),
                  e, cond.log)

IfEval(node, e, lg) ==
    IF ~IsSome(IfCondition(node)) THEN Out(Panic("unwrap"), lg)
    ELSE IfAfterCondition(node, Unwrap(IfCondition(node)), e,
                          ExprEval(Unwrap(IfCondition(node)), e, lg))

\* A parameter's value put before those of the parameters after it.
ParamsCollect(first, rest) ==
    IF ~IsOk(rest.res) THEN rest
    ELSE Out([tag |-> "Ok", vals |-> <<first.res.val>> \o rest.res.vals], rest.log)

ParamsAfterFirst(exprs, e, first) ==
    IF ~IsOk(first.res) THEN first
    ELSE ParamsCollect(first, EvalParams(Tail(exprs), e, first.log))

\* The parameters evaluated in order into a Result<Vec<_>, _>: the first
\* error ends the evaluation.
EvalParams(exprs, e, lg) ==
    IF exprs = <<>> THEN Out([tag |-> "Ok", vals |-> <<>>], lg)
    ELSE ParamsAfterFirst(exprs, e, ExprEval(exprs[1], e, lg))

RECURSIVE Outermost(_)
\* The scope at the root of the chain of scopes.
Outermost(e) == IF e.parent = NoParent THEN e ELSE Outermost(e.parent)

\* A lambda whose body is evaluated in a child of the outermost scope, not of
\* the caller's.
LambdaEvalInOutermost(lambda, call_params_range, params, e, lg) ==
    LET new_env == create_child(Outermost(e))
    IN  IF ~IsSome(LambdaParamNames(lambda)) THEN Out(Panic("unwrap"), lg)
        ELSE IF Len(params) < Len(Unwrap(LambdaParamNames(lambda)))
        THEN Out(Err(ErrorKind("TooFewParams"), call_params_range), lg)
        ELSE IF Len(params) > Len(Unwrap(LambdaParamNames(lambda)))
        THEN Out(Err(ErrorKind("TooManyParams"), call_params_range), lg)
        ELSE IF ~IsSome(LambdaBodyExpr(lambda)) THEN Out(Panic("unwrap"), lg)
        ELSE ExprEval(Unwrap(LambdaBodyExpr(lambda)),
                      StoreAll(new_env, Unwrap(LambdaParamNames(lambda)), params), lg)

\* A lambda that takes too few parameters for too many, and too many for
\* too few.
LambdaEvalKindsSwapped(lambda, call_params_range, params, e, lg) ==
    LET new_env == create_child(e)
    IN  IF ~IsSome(LambdaParamNames(lambda)) THEN Out(Panic("unwrap"), lg)
        ELSE IF Len(params) < Len(Unwrap(LambdaParamNames(lambda)))
        THEN Out(Err(ErrorKind("TooManyParams"), call_params_range), lg)
        ELSE IF Len(params) > Len(Unwrap(LambdaParamNames(lambda)))
        THEN Out(Err(ErrorKind("TooFewParams"), call_params_range), lg)
        ELSE IF ~IsSome(LambdaBodyExpr(lambda)) THEN Out(Panic("unwrap"), lg)
        ELSE ExprEval(Unwrap(LambdaBodyExpr(lambda)),
                      StoreAll(new_env, Unwrap(LambdaParamNames(lambda)), params), lg)

LambdaEval(lambda, call_params_range, params, e, lg) ==
    LET new_env == create_child(e)
    IN  IF ~IsSome(LambdaParamNames(lambda)) THEN Out(Panic("unwrap"), lg)
        ELSE IF Len(params) < Len(Unwrap(LambdaParamNames(lambda)))
        THEN Out(Err(ErrorKind("TooFewParams"), call_params_range), lg)
        ELSE IF Len(params) > Len(Unwrap(LambdaParamNames(lambda)))
        THEN Out(Err(ErrorKind("TooManyParams"), call_params_range), lg)
        ELSE IF ~IsSome(LambdaBodyExpr(lambda)) THEN Out(Panic("unwrap"), lg)
        ELSE ExprEval(Unwrap(LambdaBodyExpr(lambda)),
                      StoreAll(new_env, Unwrap(LambdaParamNames(lambda)), params), lg)

\* A command that is given its arguments last first.
CommandRunArgsReversed(name, path, exprs, vals, bad, lg) ==
    IF bad # 0
    THEN Out(Err(ErrorKind("UndisplayableCommandArg"), text_range(exprs[bad])), lg)
    ELSE IF Runnable(path)
    THEN Out(Ok(Nil),
             Append(lg, [ev |-> "spawn", path |-> path,
                         args |-> [i \in 1..Len(vals) |->
                                      DisplayRepr(vals[Len(vals) + 1 - i])]]))
    ELSE Out(Err(ErrorKind("FailedRunningCommand"), text_range(name)),
             Append(lg, [ev |-> "spawn", path |-> path,
                         args |-> [i \in 1..Len(vals) |->
                                      DisplayRepr(vals[Len(vals) + 1 - i])]]))

\* FunctionCall::eval for a command: the parameters as arguments, then the
\* program run to its end.
CommandRun(name, path, exprs, vals, bad, lg) ==
    IF bad # 0
    THEN Out(Err(ErrorKind("UndisplayableCommandArg"), text_range(exprs[bad])), lg)
    ELSE IF Runnable(path)
    THEN Out(Ok(Nil),
             Append(lg, [ev |-> "spawn", path |-> path,
                         args |-> [i \in 1..Len(vals) |-> DisplayRepr(vals[i])]]))
    ELSE Out(Err(ErrorKind("FailedRunningCommand"), text_range(name)),
             Append(lg, [ev |-> "spawn", path |-> path,
                         args |-> [i \in 1..Len(vals) |-> DisplayRepr(vals[i])]]))

\* A call that tests the number of parameters of a lambda before it looks
\* at what their evaluation gave.
FunctionCallAfterParamsArityFirst(node, name, func_or_command, exprs, e, params) ==
    IF func_or_command.tag = "Func"
       /\ Len(exprs) < Len(Unwrap(LambdaParamNames(func_or_command.lambda)))
    THEN Out(Err(ErrorKind("TooFewParams"), text_range(Unwrap(FunctionCallParams(node)))),
             params.log)
    ELSE IF func_or_command.tag = "Func"
            /\ Len(exprs) > Len(Unwrap(LambdaParamNames(func_or_command.lambda)))
    THEN Out(Err(ErrorKind("TooManyParams"), text_range(Unwrap(FunctionCallParams(node)))),
             params.log)
    ELSE IF ~IsOk(params.res) THEN params
    ELSE IF func_or_command.tag = "Func"
    THEN LambdaEval(func_or_command.lambda,
                    text_range(Unwrap(FunctionCallParams(node))),
                    params.res.vals, e, params.log)
    ELSE CommandRun(name, func_or_command.path, exprs, params.res.vals,
                    FirstUndisplayable(params.res.vals), params.log)

\* FunctionCall::eval once the parameters are evaluated.
FunctionCallAfterParams(node, name, func_or_command, exprs, e, params) ==
    IF ~IsOk(params.res) THEN params
    ELSE IF func_or_command.tag = "Func"
    THEN LambdaEval(func_or_command.lambda,
                    text_range(Unwrap(FunctionCallParams(node))),
                    params.res.vals, e, params.log)
    ELSE CommandRun(name, func_or_command.path, exprs, params.res.vals,
                    FirstUndisplayable(params.res.vals), params.log)

\* A call that reports a name it cannot resolve at the range of the whole
\* call.
FunctionCallAfterLookupAtCall(node, name, func_or_command, e, lg) ==
    IF func_or_command.tag = "Err"
    THEN Out(Err(func_or_command.kind, text_range(node)), lg)
    ELSE IF ~IsSome(FunctionCallParamExprs(node)) THEN Out(Panic("unwrap"), lg)
    ELSE FunctionCallAfterParams(node, name, func_or_command,
                                 Unwrap(FunctionCallParamExprs(node)), e,
                                 EvalParams(Unwrap(FunctionCallParamExprs(node)), e, lg))

\* A call that reports a name it cannot resolve at the range of the
\* parameters.
FunctionCallAfterLookupAtParams(node, name, func_or_command, e, lg) ==
    IF func_or_command.tag = "Err"
    THEN Out(Err(func_or_command.kind, text_range(Unwrap(FunctionCallParams(node)))), lg)
    ELSE IF ~IsSome(FunctionCallParamExprs(node)) THEN Out(Panic("unwrap"), lg)
    ELSE FunctionCallAfterParams(node, name, func_or_command,
                                 Unwrap(FunctionCallParamExprs(node)), e,
                                 EvalParams(Unwrap(FunctionCallParamExprs(node)), e, lg))

\* FunctionCall::eval once the name is looked up.
FunctionCallAfterLookup(node, name, func_or_command, e, lg) ==
    IF func_or_command.tag = "Err"
    THEN Out(Err(func_or_command.kind, text_range(name)), lg)
    ELSE IF ~IsSome(FunctionCallParamExprs(node)) THEN Out(Panic("unwrap"), lg)
    ELSE FunctionCallAfterParams(node, name, func_or_command,
                                 Unwrap(FunctionCallParamExprs(node)), e,
                                 EvalParams(Unwrap(FunctionCallParamExprs(node)), e, lg))

FunctionCallEval(node, e, lg) ==
    IF ~IsSome(FunctionCallName(node)) THEN Out(Panic("unwrap"), lg)
    ELSE FunctionCallAfterLookup(node, Unwrap(FunctionCallName(node)),
             get_func_or_command(e, Unwrap(FunctionCallName(node)).green.text), e, lg)

\* A binding definition that writes to the scope around the current one.
BindingDefStoreInParent(node, e, expr) ==
    IF ~IsOk(expr.res) THEN ItemOut(expr.res, e, expr.log)
    ELSE IF ~IsSome(BindingDefName(node)) THEN ItemOut(Panic("unwrap"), e, expr.log)
    ELSE IF e.parent = NoParent
    THEN ItemOut(Ok(Nil),
                 store_binding(e, Unwrap(BindingDefName(node)).green.text, expr.res.val),
                 expr.log)
    ELSE ItemOut(Ok(Nil),
                 [e EXCEPT !.parent =
                     store_binding(e.parent, Unwrap(BindingDefName(node)).green.text,
                                   expr.res.val)],
                 expr.log)

\* A binding definition that binds the name to Nil when the expression
\* fails.
BindingDefStoreNilOnFailure(node, e, expr) ==
    IF ~IsSome(BindingDefName(node)) THEN ItemOut(Panic("unwrap"), e, expr.log)
    ELSE IF ~IsOk(expr.res)
    THEN ItemOut(expr.res,
                 store_binding(e, Unwrap(BindingDefName(node)).green.text, Nil),
                 expr.log)
    ELSE ItemOut(Ok(Nil),
                 store_binding(e, Unwrap(BindingDefName(node)).green.text, expr.res.val),
                 expr.log)

\* BindingDef::eval once the expression is evaluated.
BindingDefStore(node, e, expr) ==
    IF ~IsOk(expr.res) THEN ItemOut(expr.res, e, expr.log)
    ELSE IF ~IsSome(BindingDefName(node)) THEN ItemOut(Panic("unwrap"), e, expr.log)
    ELSE ItemOut(Ok(Nil),
                 store_binding(e, Unwrap(BindingDefName(node)).green.text, expr.res.val),
                 expr.log)

BindingDefEval(node, e, lg) ==
    IF ~IsSome(BindingDefExpr(node)) THEN ItemOut(Panic("unwrap"), e, lg)
    ELSE BindingDefStore(node, e, ExprEval(Unwrap(BindingDefExpr(node)), e, lg))

\* Item::eval of a binding definition: the definition's () becomes Nil.
ItemOfBindingDef(out) ==
    IF IsOk(out.res) THEN ItemOut(Ok(Nil), out.env, out.log) ELSE out

\* Item::eval of an expression, which cannot write to the environment.
ItemOfExpr(e, out) == ItemOut(out.res, e, out.log)

ItemEval(node, e, lg) ==
    IF IsBindingDef(node) THEN ItemOfBindingDef(BindingDefEval(node, e, lg))
    ELSE ItemOfExpr(e, ExprEval(node, e, lg))

\* The log with the evaluation of an item at its end.
Logged(item, e, out) ==
    [out EXCEPT !.log = Append(out.log, [ev |-> "item", range |-> text_range(item),
                                         depth |-> Depth(e), res |-> out.res])]

\* A loop that goes on to the next item after an item has failed.
ItemsAfterItemKeepsGoing(items, idx, out) ==
    IF at_last(idx, Len(items)) THEN out
    ELSE EvalItemsLoop(items, idx + 1, out.env, out.log)

\* The body of the for loop of eval_items once the item is evaluated.
ItemsAfterItem(items, idx, out) ==
    IF ~IsOk(out.res) THEN out
    ELSE IF at_last(idx, Len(items)) THEN out
    ELSE EvalItemsLoop(items, idx + 1, out.env, out.log)

\* The for loop of eval_items, at index idx (counted from 0).
EvalItemsLoop(items, idx, e, lg) ==
    ItemsAfterItem(items, idx, Logged(items[idx + 1], e, ItemEval(items[idx + 1], e, lg)))

eval_items(items, e, lg) ==
    IF items = <<>> THEN ItemOut(Ok(Nil), e, lg)
    ELSE EvalItemsLoop(items, 0, e, lg)

RootEval(node, e, lg) == eval_items(Items(node), e, lg)

\* The result of a Block: the child scope is dropped.
BlockResult(out) == Out(out.res, out.log)

\* A block that evaluates its items in the scope around it.
BlockEvalInPlace(node, e, lg) == BlockResult(eval_items(Items(node), e, lg))

BlockEval(node, e, lg) == BlockResult(eval_items(Items(node), create_child(e), lg))

\* The match of Expr::eval on the kind of the expression.
ExprMatch(node, e, lg) ==
    IF node.green.isToken
    THEN CASE node.green.kind = "Atom"          -> Out(Ok(AtomEval(node)), lg)
           [] node.green.kind = "Digits"        -> Out(Ok(DigitsEval(node)), lg)
           [] node.green.kind = "StringLiteral" -> Out(Ok(StringLiteralEval(node)), lg)
           [] node.green.kind = "True"          -> Out(Ok(Bool(TRUE)), lg)
           [] node.green.kind = "False"         -> Out(Ok(Bool(FALSE)), lg)
    ELSE CASE node.green.kind = "BinOp"         -> BinOpEval(node, e, lg)
           [] node.green.kind = "If"            -> IfEval(node, e, lg)
           [] node.green.kind = "FunctionCall"  -> FunctionCallEval(node, e, lg)
           [] node.green.kind = "Lambda"        -> Out(Ok(LambdaVal(node)), lg)
           [] node.green.kind = "BindingUsage"  -> BindingUsageEval(node, e, lg)
           [] node.green.kind = "Block"         -> BlockEval(node, e, lg)

\* Expr::eval; the log takes the call, the expression's range and the
\* environment it is evaluated in.
ExprEval(node, e, lg) ==
    ExprMatch(node, e, Append(lg, [ev |-> "expr", range |-> text_range(node),
                                   depth |-> Depth(e), env |-> e]))

\* ParseOutput::eval hands back what Root::eval returned.
EvalReturns(out) ==
    /\ result' = out.res
    /\ env' = out.env
    /\ log' = out.log

\* ParseOutput::eval with the environment the caller holds.
EvalOutput ==
    /\ Done
    /\ result = NoResult
    /\ IF output.green_node.kind = "Root"
       THEN EvalReturns(RootEval(NewRoot(output.green_node), env, <<>>))
       ELSE result' = [tag |-> "NotRoot"] /\ UNCHANGED <<env, log>>
    /\ UNCHANGED parserVars

-----------------------------------------------------------------------------

\* The steps of Parser::parse.
ParserNext ==
    \/ Parse
    \/ ParseLoop
    \/ ParseAfterItem
    \/ ParseFinish
    \/ ErrorCall
    \/ parse_item
    \/ parse_statement
    \/ StatementEquals
    \/ StatementExpr
    \/ StatementFinish
    \/ parse_expr_bp
    \/ ExprAfterOne
    \/ ExprOperator
    \/ ExprFinishBinOp
    \/ parse_one_expr
    \/ parse_function_call
    \/ FunctionCallLoop
    \/ FunctionCallAfterParam
    \/ parse_lambda
    \/ LambdaLoop
    \/ LambdaAfterError
    \/ LambdaBody
    \/ LambdaFinish
    \/ parse_contained_expr
    \/ parse_binding_usage
    \/ BindingUsageFinish

Next == ParserNext \/ EvalOutput

Spec == Init /\ [][Next]_vars

\* Parsing is a plain call/return recursion: a step that can be taken is taken.
FairSpec == Spec /\ WF_vars(ParserNext)

-----------------------------------------------------------------------------
(* Reading a syntax tree.                                                  *)

RECURSIVE LeavesOf(_), LeavesOfAll(_)
\* The leaf tokens of an element, in order.
LeavesOf(element) ==
    IF element.isToken THEN <<element>> ELSE LeavesOfAll(element.children)

LeavesOfAll(elements) ==
    IF elements = <<>> THEN <<>>
    ELSE LeavesOf(elements[1]) \o LeavesOfAll(Tail(elements))

RECURSIVE ConcatText(_)
\* The texts of a sequence of tokens or lexemes, concatenated.
ConcatText(toks) ==
    IF toks = <<>> THEN "" ELSE toks[1].text \o ConcatText(Tail(toks))

ErrorLeaves(element) == SelectSeq(LeavesOf(element), LAMBDA t : t.kind = "Error")

InputIs(toks) == input = Lex(toks)

-----------------------------------------------------------------------------
(* Evaluating parse outputs of the whole grammar, in environments that     *)
(* already hold bindings and scopes.                                       *)

MaxItems == 3

WsToken == Token("Whitespace", " ")

EolToken == Token("Eol", "\n")

DigitsOf(text) == Token("Digits", text)

\* `$name`
UsageOf(name) == Node("BindingUsage", <<Token("Dollar", "$"), Token("Atom", name)>>)

\* `let name = rhs`
BindingDefOf(name, rhs) ==
    Node("BindingDef", <<Token("Let", "let"), WsToken, Token("Atom", name), WsToken,
                         Token("Equals", "="), WsToken, rhs>>)

RECURSIVE Lines(_)
\* The items with an end of line between neighbours.
Lines(elements) ==
    IF Len(elements) <= 1 THEN elements
    ELSE <<elements[1], EolToken>> \o Lines(Tail(elements))

\* `{ items }`
BlockOf(elements) ==
    Node("Block", <<Token("LBrace", "{")>> \o Lines(elements) \o <<Token("RBrace", "}")>>)

\* `name` called without parameters
CallOf(name) ==
    Node("FunctionCall", <<Token("Atom", name), Node("FunctionCallParams", <<>>)>>)

ItemPool ==
    { DigitsOf("5"),
      Token("StringLiteral", "\"foobar\""),
      BindingDefOf("a", DigitsOf("5")),
      BindingDefOf("b", UsageOf("a")),
      UsageOf("a"),
      BlockOf(<<BindingDefOf("a", DigitsOf("2")), UsageOf("a")>>),
      BlockOf(<<BindingDefOf("c", DigitsOf("1"))>>),
      BlockOf(<<>>),
      CallOf("f") }

RootOf(elements) == Node("Root", Lines(elements))

\* The Root the parser builds for the evaluator's test of several expressions.
MultipleExpressionsTree ==
    Node("Root", <<EolToken, DigitsOf("5"), EolToken, DigitsOf("10"), EolToken,
                   Token("StringLiteral", "\"foobar\""), EolToken, DigitsOf("2")>>)

Trees == {RootOf(elements) : elements \in SeqsUpTo(ItemPool, MaxItems)}
            \cup {MultipleExpressionsTree}

\* A root scope, and scopes within a scope that binds a and b.
EnvPool ==
    LET outer == store_binding(store_binding(NoEnv, "a", Number(1)), "b", Str("s"))
    IN  { NoEnv,
          create_child(outer),
          store_binding(create_child(outer), "a", Number(7)) }

\* The parser has returned the tree for the text of its leaves.
EvalInit ==
    \E tree \in Trees :
        LET leaves == LeavesOf(tree)
        IN  /\ input = Lex([i \in 1..Len(leaves) |-> Tok(leaves[i].kind, leaves[i].text)])
            /\ p = [NewParser(input) EXCEPT !.lexer = <<>>]
            /\ stack = <<>>
            /\ output = [green_node |-> tree, errors |-> <<>>, returned |-> TRUE]
            /\ env \in EnvPool
            /\ result = NoResult
            /\ log = <<>>

EvalNext == EvalOutput

EvalSpec == EvalInit /\ [][EvalNext]_vars

(***************************************************************************)
(* Evaluating single expressions of every kind, and what follows them, in  *)
(* environments that hold lambdas, other values and a command cache.       *)

MaxArgs == 2

RECURSIVE Gapped(_)
\* The elements with whitespace between neighbours.
Gapped(elements) ==
    IF Len(elements) <= 1 THEN elements
    ELSE <<elements[1], WsToken>> \o Gapped(Tail(elements))

AtomOf(text) == Token("Atom", text)

StringOf(text) == Token("StringLiteral", "\"" \o text \o "\"")

TrueToken == Token("True", "true")

FalseToken == Token("False", "false")

\* `lhs op rhs`
BinOpOf(lhs, op, rhs) ==
    Node("BinOp", <<lhs, WsToken, Token(op, TextOf(op)), WsToken, rhs>>)

\* `if condition then true_branch else false_branch`
IfOf(condition, true_branch, false_branch) ==
    Node("If", <<Token("If", "if"), WsToken, condition, WsToken,
                 Token("Then", "then"), WsToken, true_branch, WsToken,
                 Token("Else", "else"), WsToken, false_branch>>)

\* `name param param ...`
CallWith(name, params) ==
    IF params = <<>> THEN CallOf(name)
    ELSE Node("FunctionCall", <<AtomOf(name), WsToken,
                                Node("FunctionCallParams", Gapped(params))>>)

\* `|name name ...| body`
LambdaOf(names, body) ==
    Node("Lambda",
         <<Node("LambdaParams",
                <<Token("Pipe", "|")>>
                    \o Gapped([i \in 1..Len(names) |-> AtomOf(names[i])])
                    \o <<Token("Pipe", "|")>>),
           WsToken, body>>)

\* The value of a lambda expression parsed on its own.
LambdaValOf(names, body) == LambdaVal(NewRoot(LambdaOf(names, body)))

\* The command cache: the names found on the search path.
CaseCommands ==
    [ls |-> "/bin/ls", gone |-> "/gone", echo |-> "/bin/echo", f0 |-> "/bin/f0"]

\* `ls "dir"`, a call that runs a command.
RunsLs == CallWith("ls", <<StringOf("dir")>>)

RECURSIVE WithBindings(_, _, _)
\* The scope after each name is bound to the value at its place.
WithBindings(e, names, vals) ==
    IF names = <<>> THEN e
    ELSE WithBindings(store_binding(e, names[1], vals[1]), Tail(names), Tail(vals))

\* A root scope with lambdas and other values, and scopes within it.
CaseRootEnv ==
    LET names == <<"a", "foo", "echo", "f0", "f1", "f2", "g", "fb">>
        vals  == <<Number(1), Number(100), Str("s"),
                   LambdaValOf(<<>>, DigitsOf("100")),
                   LambdaValOf(<<"a">>, UsageOf("a")),
                   LambdaValOf(<<"a", "b">>, UsageOf("a")),
                   LambdaValOf(<<>>, UsageOf("a")),
                   LambdaValOf(<<>>, BlockOf(<<UsageOf("zz"), RunsLs>>))>>
    IN  WithBindings(NewEnv(CaseCommands), names, vals)

CaseEnvs ==
    { CaseRootEnv,
      store_binding(create_child(CaseRootEnv), "a", Number(7)),
      store_binding(create_child(CaseRootEnv), "b", Bool(TRUE)),
      NewEnv(CaseCommands) }

\* Expressions that open a scope: blocks, and calls of lambdas.
ScopeOpeners ==
    { BlockOf(<<BindingDefOf("a", DigitsOf("2")), UsageOf("a")>>),
      BlockOf(<<BindingDefOf("c", DigitsOf("1"))>>),
      BlockOf(<<BlockOf(<<BindingDefOf("c", DigitsOf("1"))>>), UsageOf("c")>>),
      BlockOf(<<BindingDefOf("a", DigitsOf("2")), CallOf("g")>>),
      CallWith("f1", <<DigitsOf("5")>>),
      CallWith("f2", <<DigitsOf("5"), StringOf("hi")>>) }

\* A scope opened and closed, then a binding used.
ScopeTrees ==
    {RootOf(<<first, UsageOf(name)>>) : first \in ScopeOpeners, name \in {"a", "b", "c"}}

\* `let h = || $a`, then h called where a is bound anew.
DefineThenCallTree ==
    RootOf(<<BindingDefOf("h", LambdaOf(<<>>, UsageOf("a"))),
             BlockOf(<<BindingDefOf("a", DigitsOf("2")), CallOf("h")>>)>>)

Operands ==
    { DigitsOf("6"), DigitsOf("0"), DigitsOf("3"), StringOf("s"), TrueToken,
      UsageOf("a"), UsageOf("zz") }

BinOpTrees ==
    {RootOf(<<BinOpOf(lhs, op, rhs)>>) :
        lhs \in Operands, op \in OperatorKinds, rhs \in Operands}

Conditions ==
    { TrueToken, FalseToken, StringOf("hello"), DigitsOf("1"), UsageOf("a"),
      UsageOf("b") }

Branches ==
    { BlockOf(<<BinOpOf(DigitsOf("10"), "Minus", DigitsOf("1"))>>),
      BlockOf(<<BinOpOf(DigitsOf("100"), "Slash", DigitsOf("2"))>>),
      BlockOf(<<CallWith("ls", <<StringOf("dir")>>)>>),
      UsageOf("zz") }

IfTrees ==
    {RootOf(<<IfOf(condition, true_branch, false_branch)>>) :
        condition \in Conditions, true_branch \in Branches, false_branch \in Branches}

Callees == {"f0", "f1", "f2", "g", "foo", "echo", "ls", "gone", "nope", "b"}

Params == {DigitsOf("5"), StringOf("hi"), UsageOf("a"), UsageOf("zz"), AtomOf("x")}

CallTrees ==
    {RootOf(<<CallWith(name, params)>>) :
        name \in Callees, params \in SeqsUpTo(Params, MaxArgs)}

\* `outer + lhs * rhs`: a binary operation as the right operand of another.
NestedBinOpTrees ==
    {RootOf(<<BinOpOf(outer, "Plus", BinOpOf(lhs, "Star", rhs))>>) :
        outer \in {DigitsOf("3"), StringOf("s")},
        lhs \in {DigitsOf("6"), StringOf("s"), TrueToken},
        rhs \in {DigitsOf("6"), StringOf("s"), TrueToken}}

\* Parameters with and without a display representation: a number, a
\* string, a Bool, the usage of a lambda, and an empty block for Nil; and a
\* parameter that fails.
CommandParams ==
    { DigitsOf("5"), DigitsOf("012"), StringOf("hi"), TrueToken, UsageOf("f1"),
      BlockOf(<<>>), UsageOf("zz") }

\* Calls of commands: one that runs, and one that cannot be run.
CommandCallTrees ==
    {RootOf(<<CallWith(name, params)>>) :
        name \in {"ls", "gone"}, params \in SeqsUpTo(CommandParams, MaxArgs)}

\* Items that fail: a usage of no binding, an addition to a string, a call
\* of an unknown name, and a call of the lambda whose body fails.
FailingItems ==
    { UsageOf("zz"),
      BinOpOf(DigitsOf("1"), "Plus", StringOf("s")),
      CallOf("nope"),
      CallOf("fb") }

RECURSIVE Enclosed(_, _)
\* The items `failing` and `ls "dir"`, within the given number of blocks that
\* each have `ls "dir"` after them.
Enclosed(failing, blocks) ==
    IF blocks = 0 THEN <<failing, RunsLs>>
    ELSE <<BlockOf(Enclosed(failing, blocks - 1)), RunsLs>>

\* `let c = 1`, then an item that fails within zero to two blocks, each
\* sequence with a command after the failure.
PropagationTrees ==
    {RootOf(<<BindingDefOf("c", DigitsOf("1"))>> \o Enclosed(failing, blocks)) :
        failing \in FailingItems, blocks \in 0..2}

\* Binding definitions that succeed and that fail, and a usage that fails.
DefinitionPool ==
    { BindingDefOf("a", DigitsOf("5")),
      BindingDefOf("c", DigitsOf("1")),
      BindingDefOf("a", UsageOf("zz")),
      BindingDefOf("c", BinOpOf(DigitsOf("1"), "Plus", StringOf("s"))),
      UsageOf("zz") }

DefinitionTrees == {RootOf(items) : items \in SeqsUpTo(DefinitionPool, MaxItems)}

\* `$name` alone, and after another item.
UsageTrees ==
    {RootOf(<<UsageOf(name)>>) : name \in {"a", "b", "foo", "test"}}
        \cup {RootOf(<<DigitsOf("5"), UsageOf(name)>>) : name \in {"a", "b", "foo", "test"}}

CaseTrees ==
    ScopeTrees \cup {DefineThenCallTree} \cup BinOpTrees \cup NestedBinOpTrees
        \cup IfTrees \cup CallTrees \cup UsageTrees \cup CommandCallTrees
        \cup PropagationTrees \cup DefinitionTrees

\* The parser has returned the tree for the text of its leaves.
CaseInit ==
    \E tree \in CaseTrees :
        LET leaves == LeavesOf(tree)
        IN  /\ input = Lex([i \in 1..Len(leaves) |-> Tok(leaves[i].kind, leaves[i].text)])
            /\ p = [NewParser(input) EXCEPT !.lexer = <<>>]
            /\ stack = <<>>
            /\ output = [green_node |-> tree, errors |-> <<>>, returned |-> TRUE]
            /\ env \in CaseEnvs
            /\ result = NoResult
            /\ log = <<>>

CaseNext == EvalOutput

CaseSpec == CaseInit /\ [][CaseNext]_vars

(***************************************************************************)
(* The command cache (src/commands.rs): a mapping from command names to    *)
(* paths, filled by listing directories.  The cache is the `commands` of   *)
(* the environment; `result` takes what the last operation returned and    *)
(* `log` the last operation and its arguments.                             *)

MaxPaths == 3

\* A directory entry read without an error, and one that read_dir gives as
\* an error.
EntryOf(name) == [ok |-> TRUE, name |-> name]

EntryError == [ok |-> FALSE, name |-> ""]

\* The directories of the file system.  /missing cannot be listed.
Directories == {"/bin", "/usr/bin", "/opt", "/flaky", "/missing"}

\* fs::read_dir: the directory can be listed.
CanReadDir(dir) == dir # "/missing"

\* The entries fs::read_dir gives for a directory, in the order it gives
\* them.
ReadDir(dir) ==
    CASE dir = "/bin"     -> <<EntryOf("ls"), EntryOf("cat")>>
      [] dir = "/usr/bin" -> <<EntryOf("env"), EntryOf("ls"), EntryOf("t\\xFF")>>
      [] dir = "/opt"     -> <<>>
      [] dir = "/flaky"   -> <<EntryOf("tool"), EntryError, EntryOf("late")>>
      [] OTHER            -> <<>>

\* OsStr::to_string_lossy: a name that is no UTF-8 gets the replacement
\* character for the bytes that are none; other names are kept.
ToStringLossy(name) == IF name = "t\\xFF" THEN "t\\uFFFD" ELSE name

\* The path of an entry of a directory.
PathIn(dir, name) == dir \o "/" \o name

\* Commands::default
NoPaths == <<>>

\* HashMap::insert
Insert(paths, name, path) ==
    [n \in DOMAIN paths \cup {name} |-> IF n = name THEN path ELSE paths[n]]

\* What rescan returns, and the mapping it leaves.
Rescanned(ok, paths) == [ok |-> ok, paths |-> paths]

RECURSIVE ScanEntries(_, _, _)
\* The inner loop of rescan: the entries of one directory, until one of them
\* is an error.
ScanEntries(paths, dir, entries) ==
    IF entries = <<>> THEN Rescanned(TRUE, paths)
    ELSE IF ~entries[1].ok THEN Rescanned(FALSE, paths)
    ELSE ScanEntries(Insert(paths, ToStringLossy(entries[1].name),
                            PathIn(dir, entries[1].name)),
                     dir, Tail(entries))

RECURSIVE ScanPaths(_, _)

\* The outer loop of rescan once a directory is scanned.
AfterDirectory(scanned, search_paths) ==
    IF ~scanned.ok THEN scanned ELSE ScanPaths(scanned.paths, Tail(search_paths))

\* The outer loop of rescan: the directories in the order given, until one
\* cannot be listed.
ScanPaths(paths, search_paths) ==
    IF search_paths = <<>> THEN Rescanned(TRUE, paths)
    ELSE IF ~CanReadDir(search_paths[1]) THEN Rescanned(FALSE, paths)
    ELSE AfterDirectory(ScanEntries(paths, search_paths[1], ReadDir(search_paths[1])),
                        search_paths)

\* A rescan that keeps what was stored before.
rescan_without_clear(paths, search_paths) == ScanPaths(paths, search_paths)

\* Commands::rescan
rescan(paths, search_paths) == ScanPaths(NoPaths, search_paths)

\* Commands::get
get(paths, command_name) ==
    IF command_name \in DOMAIN paths THEN <<paths[command_name]>> ELSE <<>>

CommandNames == {"ls", "cat", "env", "tool", "late", "nope", "t\\uFFFD"}

\* A call of rescan with some search paths.
CallRescan(search_paths) ==
    /\ env' = [env EXCEPT !.commands = rescan(env.commands, search_paths).paths]
    /\ result' = [tag |-> IF rescan(env.commands, search_paths).ok THEN "Ok" ELSE "IoError"]
    /\ log' = <<[ev |-> "rescan", search_paths |-> search_paths]>>
    /\ UNCHANGED parserVars

Rescan == \E search_paths \in SeqsUpTo(Directories, MaxPaths) : CallRescan(search_paths)

\* A call of get with some name; it takes the cache by shared reference.
CallGet(command_name) ==
    /\ result' = [tag |-> "Got", path |-> get(env.commands, command_name)]
    /\ log' = <<[ev |-> "get", command_name |-> command_name]>>
    /\ UNCHANGED <<env, parserVars>>

Get == \E command_name \in CommandNames : CallGet(command_name)

CommandsInit ==
    /\ input = <<>>
    /\ p = NewParser(input)
    /\ stack = <<>>
    /\ output = NoOutput
    /\ env = NewEnv(NoPaths)
    /\ result = NoResult
    /\ log = <<>>

CommandsNext == Rescan \/ Get

CommandsSpec == CommandsInit /\ [][CommandsNext]_vars

-----------------------------------------------------------------------------
(* Prototype parameter matching: libfjord's params::eval, which pairs the  *)
(* parameters of a call with the parameters of the function's definition.  *)

MaxCallParams == 2

MaxDefParams == 3

\* The names parameters are given, and the expressions of the i-th call
\* parameter and of the i-th definition parameter's default.
ParamNames == {"a", "b", "c"}

ArgExprs == <<"1", "7", "4", "9", "5">>

DefaultExprs == <<"10", "70", "40", "90", "50">>

\* call::Param: the name is an Option, the value an Expr.
CallParam(name, val) == [name |-> name, val |-> val]

is_named(param) == IsSome(param.name)

\* def::Param: the default value is an Option.
DefParam(name, val) == [name |-> name, val |-> val]

has_default(param) == IsSome(param.val)

CompleteParam(name, val) == [name |-> name, val |-> val]

\* Err of a params::Error.
ParamsErr(error) == [tag |-> "Err", error |-> error]

\* Iterator::position over the names: the first index, if any.
position(def_params, param_name) ==
    LET found == {i \in 1..Len(def_params) : def_params[i].name = param_name}
    IN  IF found = {} THEN <<>>
        ELSE <<CHOOSE i \in found : \A j \in found : i <= j>>

\* Vec::remove.
remove(vec, idx) == SubSeq(vec, 1, idx - 1) \o SubSeq(vec, idx + 1, Len(vec))

RECURSIVE MatchNamed(_, _, _)
\* The loop over the named parameters: each takes the first definition
\* parameter of its name out of def_params, or ends the matching.
MatchNamed(named_params, def_params, complete_params) ==
    IF named_params = <<>>
    THEN [found |-> TRUE, def_params |-> def_params,
          complete_params |-> complete_params]
    ELSE LET named_param == Head(named_params)
             param_name == Unwrap(named_param.name)
             def_param_idx == position(def_params, param_name)
         IN  IF IsSome(def_param_idx)
             THEN MatchNamed(Tail(named_params),
                             remove(def_params, Unwrap(def_param_idx)),
                             Append(complete_params,
                                    CompleteParam(param_name, named_param.val)))
             ELSE [found |-> FALSE, def_params |-> def_params,
                   complete_params |-> complete_params]

\* positional_params.into_iter().zip(&def_params), pushed as CompleteParams.
Zipped(positional_params, def_params) ==
    LET shortest == IF Len(positional_params) <= Len(def_params)
                    THEN Len(positional_params) ELSE Len(def_params)
    IN  [i \in 1..shortest |->
            CompleteParam(def_params[i].name, positional_params[i].val)]

\* The default values of the definition parameters that have one.
Defaults(def_params) ==
    LET default_params == SelectSeq(def_params, has_default)
    IN  [i \in 1..Len(default_params) |->
            CompleteParam(default_params[i].name, Unwrap(default_params[i].val))]

\* def_params.retain(|p| !p.has_default()).
WithoutDefault(def_params) == SelectSeq(def_params, LAMBDA param : ~has_default(param))

\* The match on the ordering with the definition parameters dropping none of
\* those the positional parameters have used before the defaults are taken.
MatchPositionalKeepsUsed(positional_params, def_params, complete_params) ==
    IF Len(positional_params) > Len(def_params)
    THEN ParamsErr("TooManyFuncParams")
    ELSE LET zipped == complete_params \o Zipped(positional_params, def_params)
         IN  IF Len(positional_params) < Len(def_params)
             THEN IF WithoutDefault(def_params) # <<>>
                  THEN ParamsErr("NotEnoughFuncParams")
                  ELSE Ok(zipped \o Defaults(def_params))
             ELSE Ok(zipped)

\* The match on the ordering of the number of positional parameters and the
\* number of definition parameters the named ones have left.
MatchPositional(positional_params, def_params, complete_params) ==
    LET def_params_len == Len(def_params)
        positional_params_len == Len(positional_params)
    IN  IF positional_params_len > def_params_len
        THEN ParamsErr("TooManyFuncParams")
        ELSE LET zipped == complete_params \o Zipped(positional_params, def_params)
             IN  IF positional_params_len < def_params_len
                 THEN LET unused == SubSeq(def_params, positional_params_len + 1,
                                           def_params_len)
                      IN  IF WithoutDefault(unused) # <<>>
                          THEN ParamsErr("NotEnoughFuncParams")
                          ELSE Ok(zipped \o Defaults(unused))
                 ELSE Ok(zipped)

\* params::eval.
eval(call_params, def_params) ==
    LET named_params == SelectSeq(call_params, is_named)
        positional_params == SelectSeq(call_params, LAMBDA param : ~is_named(param))
        named == MatchNamed(named_params, def_params, <<>>)
    IN  IF named.found
        THEN MatchPositional(positional_params, named.def_params,
                             named.complete_params)
        ELSE ParamsErr("FuncParamNotFound")

\* The parameters of a call: each named or positional.
CallParamSeqs ==
    {[i \in 1..Len(names) |-> CallParam(names[i], ArgExprs[i])] :
        names \in SeqsUpTo({<<>>} \cup {<<name>> : name \in ParamNames}, MaxCallParams)}

\* The parameters of a definition: each with or without a default.
DefParamSeqs ==
    {[i \in 1..Len(params) |->
            DefParam(params[i][1],
                     IF params[i][2] THEN <<DefaultExprs[i]>> ELSE <<>>)] :
        params \in SeqsUpTo(ParamNames \X BOOLEAN, MaxDefParams)}

\* A call of a function is about to have its parameters matched.
ParamsInit ==
    /\ input = <<>>
    /\ p = NewParser(input)
    /\ stack = <<>>
    /\ output = NoOutput
    /\ env = NoEnv
    /\ result = NoResult
    /\ \E call_params \in CallParamSeqs, def_params \in DefParamSeqs :
            log = <<[ev |-> "params", call_params |-> call_params,
                     def_params |-> def_params]>>

\* The call of params::eval in Expr::eval.
ParamsEval ==
    /\ result = NoResult
    /\ result' = eval(log[1].call_params, log[1].def_params)
    /\ UNCHANGED <<env, log, parserVars>>

ParamsNext == ParamsEval

ParamsSpec == ParamsInit /\ [][ParamsNext]_vars

-----------------------------------------------------------------------------
(* C1: losslessness.  At every point of a parse the leaves emitted so far  *)
(* followed by the lexemes still in the lexer are the input, lexeme by     *)
(* lexeme: each leaf has the text of its lexeme and either the lexeme's    *)
(* kind or Error.  Once Parser::parse has returned the lexer is empty and  *)
(* the concatenated leaf texts of the tree are the concatenated input.     *)
C1_Lossless ==
    LET emitted == LeavesOfAll(p.builder.children)
    IN  /\ Len(emitted) + Len(p.lexer) = Len(input)
        /\ p.lexer = SubSeq(input, Len(emitted) + 1, Len(input))
        /\ \A i \in 1..Len(emitted) :
                /\ emitted[i].text = input[i].text
                /\ emitted[i].kind \in {input[i].kind, "Error"}
        /\ Done =>
                /\ p.lexer = <<>>
                /\ output.green_node.kind = "Root"
                /\ Len(LeavesOf(output.green_node)) = Len(input)
                /\ ConcatText(LeavesOf(output.green_node)) = ConcatText(input)

\* A finished parse of at least three lexemes, some emitted by bump inside a
\* nested node and some by error().
C1_Witness ==
    /\ Done
    /\ Len(input) >= 3
    /\ ErrorLeaves(output.green_node) # <<>>
    /\ Len(ErrorLeaves(output.green_node)) < Len(input)
    /\ \E i \in 1..Len(output.green_node.children) :
            ~output.green_node.children[i].isToken

-----------------------------------------------------------------------------
(* C2: termination.  Parser::parse returns for every finite lexeme stream: *)
(* every behaviour of the parser in which enabled steps are taken reaches  *)
(* the point where the ParseOutput has been produced.                      *)
C2_ParseTerminates == <>Done

-----------------------------------------------------------------------------
(* The item loop of Parser::parse.                                         *)

\* When an item has been parsed and its trailing whitespace skipped, the
\* parser is at an end-of-line or at the end of the input: parse_expr_bp
\* called with min_bp 0 returns nowhere else, and a function call's argument
\* loop ends nowhere else.
ItemEndsAtEndOfLine ==
    At("parse_after_item") => Peek(SkipWs(p)) \in {"Eol", None}

-----------------------------------------------------------------------------
(* C4: the recovery policy of Parser::error.  Every call appends exactly   *)
(* one syntax error, the message it was called with (as long as the model  *)
(* still records errors).  When the next lexeme exists and is not an       *)
(* end-of-line the call takes exactly that lexeme from the lexer and hands *)
(* it to the builder as an Error token with its text; at an end-of-line or *)
(* at the end of the input it leaves the lexer and the builder alone.  So  *)
(* `$let` parses to a BindingUsage of `$` and the Error token `let`.       *)
C4_ErrorPolicy ==
    /\ [][At("error") =>
            /\ Len(p.errors) < MaxErrors => p'.errors = Append(p.errors, Top.message)
            /\ IF Peek(p) \in {"Eol", None}
               THEN /\ p'.lexer = p.lexer
                    /\ p'.builder = p.builder
               ELSE /\ p'.lexer = Tail(p.lexer)
                    /\ p'.builder.children =
                            Append(p.builder.children, Token("Error", p.lexer[1].text))
                    /\ p'.builder.parents = p.builder.parents]_vars
    /\ [](Done /\ InputIs(DollarLet) =>
            /\ output.green_node =
                    Node("Root", <<Node("BindingUsage", <<Token("Dollar", "$"),
                                                           Token("Error", "let")>>)>>)
            /\ output.errors = <<"expected atom">>)

\* A finished parse in which error() was called at least twice, once
\* consuming a lexeme and once, at an end-of-line or the end, consuming none.
C4_Witness ==
    /\ Done
    /\ Len(output.errors) >= 2
    /\ Len(output.errors) < MaxErrors
    /\ Len(ErrorLeaves(output.green_node)) >= 1
    /\ Len(ErrorLeaves(output.green_node)) < Len(output.errors)

-----------------------------------------------------------------------------
(* C5: recovery inside a binding definition.                               *)

Ws == Token("Whitespace", " ")

\* The BindingDef node of `let NAME = EXPR` with single spaces.
BindingDefTree(name, equals, expr) ==
    Node("BindingDef", <<Token("Let", "let"), Ws, name, Ws, equals, Ws, expr>>)

\* What parse_expr builds for a right-hand side of one lexeme.
OneLexemeExpr(kind) ==
    IF kind = "Atom"
    THEN Node("FunctionCall", <<Token("Atom", TextOf(kind)), Node("FunctionCallParams", <<>>)>>)
    ELSE Token(kind, TextOf(kind))

StartsExpr(kind) == kind \in {"Digits", "StringLiteral", "Dollar", "Atom", "Pipe"}

\* The recovered binding: the whole input is one BindingDef with the given
\* children and exactly the one given error.
RecoversAs(name, equals, expr, message) ==
    /\ output.green_node = Node("Root", <<BindingDefTree(name, equals, expr)>>)
    /\ output.errors = <<message>>

\* The input has the length and the first lexeme of a LetShape.
IsLetLine == Len(input) = 7 /\ input[1].kind = "Let"

\* The statement about a finished parse, with the named kinds excepted from
\* the wrong lexemes.
BindingDefRecovery(excepted) ==
    /\ \A x \in TokenKinds \ ({"Atom", "Whitespace"} \cup excepted) :
       \A z \in {"Digits", "StringLiteral", "Atom"} :
            InputIs(LetShape(x, "Equals", z)) =>
                RecoversAs(Token("Error", TextOf(x)), Token("Equals", "="),
                           OneLexemeExpr(z), "expected binding name")
    /\ \A y \in TokenKinds \ ({"Equals", "Whitespace"} \cup excepted) :
       \A z \in {"Digits", "StringLiteral", "Atom"} :
            InputIs(LetShape("Atom", y, z)) =>
                RecoversAs(Token("Atom", "x"), Token("Error", TextOf(y)),
                           OneLexemeExpr(z), "expected equals sign")
    /\ \A z \in {k \in TokenKinds : ~StartsExpr(k)} \ ({"Whitespace"} \cup excepted) :
            InputIs(LetShape("Atom", "Equals", z)) =>
                RecoversAs(Token("Atom", "x"), Token("Equals", "="),
                           Token("Error", TextOf(z)), "expected expression")

\* C5 as stated: whenever the lexeme after `let` is not an Atom (or the one
\* in place of `=`, or of the right-hand side, is wrong), the BindingDef
\* holds one Error token in its place, the rest of the binding is parsed
\* inside the same BindingDef and exactly one syntax error is recorded.
C5_AnyWrongLexeme == Done /\ IsLetLine => BindingDefRecovery({})

\* C5 as amended: the same, for a wrong lexeme that is not an end-of-line.
\* The three bindings of the parser's tests recover as the tests say.
C5_BindingDefRecovery ==
    /\ Done /\ IsLetLine => BindingDefRecovery({"Eol"})
    /\ Done /\ InputIs(LetFiveEqualsTen) =>
            RecoversAs(Token("Error", "5"), Token("Equals", "="),
                       Token("Digits", "10"), "expected binding name")
    /\ Done /\ InputIs(LetXJunkTen) =>
            RecoversAs(Token("Atom", "x"), Token("Error", "_"),
                       Token("Digits", "10"), "expected equals sign")
    /\ Done /\ InputIs(LetAEqualsEquals) =>
            RecoversAs(Token("Atom", "a"), Token("Equals", "="),
                       Token("Error", "="), "expected expression")

\* `let 5 = 10` has been parsed.
C5_Witness ==
    /\ Done
    /\ InputIs(LetFiveEqualsTen)
    /\ Len(ErrorLeaves(output.green_node)) = 1
    /\ output.green_node.children[1].kind = "BindingDef"

-----------------------------------------------------------------------------
(* C8: a function call's argument list ends at an operator.  After         *)
(* `f x + y` has been parsed no syntax error is recorded, no lexeme has    *)
(* become an Error token, and the operator is not among the leaves of the  *)
(* FunctionCall node.                                                      *)
C8_CallEndsBeforeOperator ==
    Done /\ InputIs(CallThenOperator) =>
        /\ output.errors = <<>>
        /\ ErrorLeaves(output.green_node) = <<>>
        /\ \A i \in 1..Len(output.green_node.children) :
                LET child == output.green_node.children[i]
                IN  child.kind = "FunctionCall" =>
                        \A j \in 1..Len(LeavesOf(child)) : LeavesOf(child)[j].text # "+"

-----------------------------------------------------------------------------
(* Operator chains.                                                        *)

\* The lexemes of the input other than whitespace.
Significant == SelectSeq(input, LAMBDA l : l.kind # "Whitespace")

\* operand (operator operand)* over digit runs.
IsChain(lexemes) ==
    /\ Len(lexemes) % 2 = 1
    /\ \A i \in 1..Len(lexemes) :
          IF i % 2 = 1 THEN lexemes[i].kind = "Digits"
          ELSE lexemes[i].kind \in OperatorKinds

OpsOf(lexemes) == {OpOfKind(lexemes[i].kind) : i \in {j \in 1..Len(lexemes) : j % 2 = 0}}

Additive == {"Add", "Sub"}

Multiplicative == {"Mul", "Div"}

SameLevel(lexemes) == OpsOf(lexemes) \subseteq Additive \/ OpsOf(lexemes) \subseteq Multiplicative

RECURSIVE Strip(_)
\* An element without its whitespace tokens.
Strip(element) ==
    IF element.isToken THEN element
    ELSE LET kept == SelectSeq(element.children,
                               LAMBDA c : ~(c.isToken /\ c.kind = "Whitespace"))
         IN  Node(element.kind, [i \in 1..Len(kept) |-> Strip(kept[i])])

Leaf(lexeme) == Token(lexeme.kind, lexeme.text)

RECURSIVE LeftNested(_)
\* ((a op b) op c) op d
LeftNested(lexemes) ==
    IF Len(lexemes) = 1 THEN Leaf(lexemes[1])
    ELSE Node("BinOp", << LeftNested(SubSeq(lexemes, 1, Len(lexemes) - 2)),
                          Leaf(lexemes[Len(lexemes) - 1]),
                          Leaf(lexemes[Len(lexemes)]) >>)

\* The result of an operator on two results, the left one looked at first.
Combine(op, lhs, rhs) ==
    IF ~IsOk(lhs) THEN lhs
    ELSE IF ~IsOk(rhs) THEN rhs
    ELSE IF op = "Div" /\ rhs.val.number = 0 THEN Panic("attempt to divide by zero")
    ELSE Ok(Number(Apply(op, lhs.val.number, rhs.val.number)))

RECURSIVE LeftToRight(_)
\* The chain worked out from the left, one operator after the other.
LeftToRight(lexemes) ==
    IF Len(lexemes) = 1 THEN Ok(Number(ParseDigits(lexemes[1].text)))
    ELSE Combine(OpOfKind(lexemes[Len(lexemes) - 1].kind),
                 LeftToRight(SubSeq(lexemes, 1, Len(lexemes) - 2)),
                 Ok(Number(ParseDigits(lexemes[Len(lexemes)].text))))

RECURSIVE ByPrecedence(_)
\* The chain as arithmetic reads it: the products and quotients first, then
\* the sums and differences of them from the left.
ByPrecedence(lexemes) ==
    LET additive == {i \in 1..Len(lexemes) :
                        i % 2 = 0 /\ OpOfKind(lexemes[i].kind) \in Additive}
        last     == CHOOSE i \in additive : \A j \in additive : j <= i
    IN  IF additive = {} THEN LeftToRight(lexemes)
        ELSE Combine(OpOfKind(lexemes[last].kind),
                     ByPrecedence(SubSeq(lexemes, 1, last - 1)),
                     LeftToRight(SubSeq(lexemes, last + 1, Len(lexemes))))

Evaluated == result # NoResult

\* The tree the parser's test expects for `10 - 5 - 3 - 2`.
AssociativityTree ==
    LET ws == Token("Whitespace", " ")
        minus == Token("Minus", "-")
        d(text) == Token("Digits", text)
    IN  Node("Root", <<
            Node("BinOp", <<
                Node("BinOp", <<
                    Node("BinOp", <<d("10"), ws, minus, ws, d("5"), ws>>),
                    minus, ws, d("3"), ws>>),
                minus, ws, d("2")>>)>>)

\* C6: a chain of operators of equal binding power parses into left-nested
\* BinOp nodes, the earlier operation being the left child of the later one,
\* and evaluates from the left; `10 - 5 - 3 - 2` nests as ((10-5)-3)-2 and
\* evaluates to 0.
C6_LeftAssociative ==
    /\ Done /\ IsChain(Significant) /\ SameLevel(Significant) =>
          Strip(output.green_node) = Node("Root", <<LeftNested(Significant)>>)
    /\ Evaluated /\ IsChain(Significant) /\ SameLevel(Significant) =>
          result = LeftToRight(Significant)
    /\ Done /\ InputIs(ShowingAssociativity) => output.green_node = AssociativityTree
    /\ Evaluated /\ InputIs(ShowingAssociativity) => result = Ok(Number(0))

C6_Witness ==
    /\ InputIs(ShowingAssociativity)
    /\ output.green_node = AssociativityTree
    /\ result = Ok(Number(0))

\* The BinOp nodes anywhere in an element.
RECURSIVE BinOpsIn(_)
BinOpsIn(element) ==
    IF element.isToken THEN {}
    ELSE (IF element.kind = "BinOp" THEN {element} ELSE {})
         \cup UNION {BinOpsIn(element.children[i]) : i \in 1..Len(element.children)}

\* The operator of a BinOp element.
OperatorOf(element) ==
    LET ops == SelectSeq(element.children,
                         LAMBDA c : c.isToken /\ c.kind \in OperatorKinds)
    IN  OpOfKind(ops[1].kind)

\* The tree the parser's test expects for `2 + 3 * 4`.
PrecedenceTree ==
    LET ws == Token("Whitespace", " ")
        d(text) == Token("Digits", text)
    IN  Node("Root", <<
            Node("BinOp", <<d("2"), ws, Token("Plus", "+"), ws,
                Node("BinOp", <<d("3"), ws, Token("Star", "*"), ws, d("4")>>)>>)>>)

\* C7: `*` and `/` bind tighter than `+` and `-`.  In `a + b * c` the
\* multiplicative BinOp is the right operand of the additive one and in
\* `a * b + c` the left operand; no additive BinOp is ever an operand of a
\* multiplicative one; a chain of any mix of the four operators evaluates as
\* arithmetic reads it, and `2 + 3 * 4` evaluates to 14.
C7_Precedence ==
    LET s == Significant
        first == OpOfKind(s[2].kind)
        second == OpOfKind(s[4].kind)
    IN  /\ Done /\ IsChain(s) /\ Len(s) = 5 /\ first \in Additive /\ second \in Multiplicative =>
              Strip(output.green_node) =
                  Node("Root", <<Node("BinOp", <<Leaf(s[1]), Leaf(s[2]),
                                    Node("BinOp", <<Leaf(s[3]), Leaf(s[4]), Leaf(s[5])>>)>>)>>)
        /\ Done /\ IsChain(s) /\ Len(s) = 5 /\ first \in Multiplicative /\ second \in Additive =>
              Strip(output.green_node) =
                  Node("Root", <<Node("BinOp", <<
                                    Node("BinOp", <<Leaf(s[1]), Leaf(s[2]), Leaf(s[3])>>),
                                    Leaf(s[4]), Leaf(s[5])>>)>>)
        /\ Done => \A outer \in BinOpsIn(output.green_node) :
              OperatorOf(outer) \in Multiplicative =>
                  \A i \in 1..Len(outer.children) :
                      LET inner == outer.children[i]
                      IN  ~inner.isToken /\ inner.kind = "BinOp" =>
                              OperatorOf(inner) \in Multiplicative
        /\ Evaluated /\ IsChain(s) => result = ByPrecedence(s)
        /\ Done /\ InputIs(ShowingPrecedence) => output.green_node = PrecedenceTree
        /\ Evaluated /\ InputIs(ShowingPrecedence) => result = Ok(Number(14))

C7_Witness ==
    /\ InputIs(ShowingPrecedence)
    /\ output.green_node = PrecedenceTree
    /\ result = Ok(Number(14))

-----------------------------------------------------------------------------
(* Sequences of items.                                                     *)

\* The items of the Root that was evaluated.
TopItems == Items(NewRoot(output.green_node))

\* The items of a sequence that were evaluated in a scope of the given
\* depth within the given range, as the log has them.
ItemEvents(depth, range) ==
    SelectSeq(log, LAMBDA event : /\ event.ev = "item"
                                  /\ event.depth = depth
                                  /\ range[1] <= event.range[1]
                                  /\ event.range[2] <= range[2])

\* What the log must show of one evaluation of a sequence of items that
\* returned res: every item evaluated once and in order up to the end or to
\* the first failure, and res the result of the last of them.
EvaluatedInOrder(items, events, res) ==
    IF items = <<>> THEN events = <<>> /\ res = Ok(Nil)
    ELSE /\ Len(events) \in 1..Len(items)
         /\ \A i \in 1..Len(events) : events[i].range = text_range(items[i])
         /\ \A i \in 1..(Len(events) - 1) : IsOk(events[i].res)
         /\ res = events[Len(events)].res
         /\ IsOk(res) => Len(events) = Len(items)

\* The value a literal item has by its text alone.
LiteralValue(item) ==
    IF item.green.kind = "Digits" THEN Number(ParseDigits(item.green.text))
    ELSE Str(SubSeq(item.green.text, 2, Len(item.green.text) - 1))

-----------------------------------------------------------------------------
(* Binding definitions.                                                    *)

\* The names the binding definitions among the items define.
DefinedBy(items) ==
    {Unwrap(BindingDefName(items[i])).green.text :
        i \in {j \in 1..Len(items) : IsBindingDef(items[j])}}

\* The scope with one more binding, the others as they were.
WithBinding(e, name, val) ==
    [bindings |-> [n \in DOMAIN e.bindings \cup {name} |->
                      IF n = name THEN val ELSE e.bindings[n]],
     parent   |-> e.parent,
     commands |-> e.commands]

\* The step of evaluating a Root whose only item is the given one.
EvaluatesOnly(item) ==
    /\ ~Evaluated
    /\ Evaluated'
    /\ output.green_node = RootOf(<<item>>)

-----------------------------------------------------------------------------
(* Scopes.                                                                 *)

\* The step of evaluating the parse output.
Evaluates == ~Evaluated /\ Evaluated'

\* The events of the log, in any order.
Events(lg) == {lg[i] : i \in 1..Len(lg)}

\* The calls of Expr::eval the log holds.
ExprEvents(lg) == {event \in Events(lg) : event.ev = "expr"}

\* The results of the items the log holds.
ItemResults(lg) == {event \in Events(lg) : event.ev = "item"}

\* The range lies within the other one.
Within(range, outer) == outer[1] <= range[1] /\ range[2] <= outer[2]

\* The first expression a scope opener evaluates in the scope it opens: of
\* a block the one of its first item, of a call the body of the lambda.
FirstInside(opener, e) ==
    IF IsNodeOf(opener, "Block")
    THEN IF IsBindingDef(Items(opener)[1])
         THEN Unwrap(BindingDefExpr(Items(opener)[1]))
         ELSE Items(opener)[1]
    ELSE Unwrap(LambdaBodyExpr(get_binding(e, Unwrap(FunctionCallName(opener)).green.text).lambda))

\* C11: a block is evaluated in one fresh child scope of the current one,
\* and once a block or a lambda call is over no binding made inside it is
\* visible: a later `$name` fails with BindingDoesNotExist unless the
\* enclosing environment binds the name, and then it has the value it had
\* before.
C11_ScopingBoundary ==
    [][ Evaluates /\ output.green_node \in ScopeTrees =>
          LET first  == TopItems[1]
              second == TopItems[2]
              name   == Unwrap(BindingUsageName(second)).green.text
              opened == \E event \in ItemResults(log') :
                            /\ event.depth = Depth(env)
                            /\ event.range = text_range(first)
              closed == \E event \in ItemResults(log') :
                            /\ event.depth = Depth(env)
                            /\ event.range = text_range(first)
                            /\ IsOk(event.res)
          IN  /\ env' = env
              /\ \A event \in ExprEvents(log') :
                    /\ event.depth <= Depth(env) + 2
                    /\ event.depth = Depth(env) => event.env = env
                    /\ event.depth = Depth(env) + 1 => event.env.parent = env
              /\ IsNodeOf(first, "Block") =>
                    \E event \in ExprEvents(log') :
                        /\ event.range = text_range(FirstInside(first, env))
                        /\ event.env = create_child(env)
              /\ closed /\ HasBinding(env, name) => result' = Ok(get_binding(env, name))
              /\ closed /\ ~HasBinding(env, name) =>
                    result' = Err(ErrorKind("BindingDoesNotExist"), text_range(second))
              /\ first.green = BlockOf(<<BlockOf(<<BindingDefOf("c", DigitsOf("1"))>>),
                                         UsageOf("c")>>) =>
                    result' = Err(ErrorKind("BindingDoesNotExist"),
                                  text_range(Items(first)[2]))
      ]_vars

\* `{ let a = 2 \n $a }` gave 2, and `$a` after it the 7 of the scope around.
C11_Witness ==
    /\ Evaluated
    /\ output.green_node = RootOf(<<BlockOf(<<BindingDefOf("a", DigitsOf("2")), UsageOf("a")>>),
                                    UsageOf("a")>>)
    /\ \E event \in ItemResults(log) :
          event.depth = Depth(env) /\ event.range = <<0, 14>> /\ event.res = Ok(Number(2))
    /\ result = Ok(Number(7))

-----------------------------------------------------------------------------
(* Binary operations.                                                      *)

\* The Root's only item, a binary operation.
TheBinOp == TopItems[1]

\* The operand is a number literal or the usage of a binding to a number.
IsNumberOperand(operand, e) ==
    \/ IsTokenOf(operand, {"Digits"})
    \/ /\ IsNodeOf(operand, "BindingUsage")
       /\ HasBinding(e, Unwrap(BindingUsageName(operand)).green.text)
       /\ get_binding(e, Unwrap(BindingUsageName(operand)).green.text).ty = "Number"

\* The number a number operand stands for.
NumberOf(operand, e) ==
    IF IsTokenOf(operand, {"Digits"}) THEN ParseDigits(operand.green.text)
    ELSE get_binding(e, Unwrap(BindingUsageName(operand)).green.text).number

\* A number is divided by zero.
DividesByZero ==
    /\ output.green_node \in BinOpTrees
    /\ Unwrap(BinOpOp(TheBinOp)).green.kind = "Slash"
    /\ IsNumberOperand(Unwrap(BinOpLhs(TheBinOp)), env)
    /\ IsNumberOperand(Unwrap(BinOpRhs(TheBinOp)), env)
    /\ NumberOf(Unwrap(BinOpRhs(TheBinOp)), env) = 0

\* C12: the division of a number by zero returns a DivisionByZero error
\* located in the source; the evaluation neither aborts nor gives a value.
C12_DivisionByZero ==
    Evaluated /\ DividesByZero =>
        /\ result.tag = "Err"
        /\ result.kind = ErrorKind("DivisionByZero")
        /\ Within(result.range, text_range(TheBinOp))

\* The operand is evaluated without an error: a literal, or the usage of a
\* binding the environment has.
OperandSucceeds(operand, e) ==
    IsNodeOf(operand, "BindingUsage") =>
        HasBinding(e, Unwrap(BindingUsageName(operand)).green.text)

\* The runtime type of the value of an operand that succeeds.
TypeOfOperand(operand, e) ==
    CASE IsTokenOf(operand, {"Digits"})        -> "Number"
      [] IsTokenOf(operand, {"StringLiteral"}) -> "Str"
      [] IsTokenOf(operand, {"True", "False"}) -> "Bool"
      [] IsNodeOf(operand, "BindingUsage")     ->
            get_binding(e, Unwrap(BindingUsageName(operand)).green.text).ty

\* The Number the operator gives for two numbers, the divisor not zero.
GivenBy(op, lhs, rhs) ==
    CASE op = "Plus"  -> lhs + rhs
      [] op = "Minus" -> lhs - rhs
      [] op = "Star"  -> lhs * rhs
      [] op = "Slash" -> lhs \div rhs

\* What C13 says of a binary operation of two operands that succeed.
TypedResult(bin_op, e) ==
    LET lhs == Unwrap(BinOpLhs(bin_op))
        rhs == Unwrap(BinOpRhs(bin_op))
    IN  IF TypeOfOperand(lhs, e) = "Number" /\ TypeOfOperand(rhs, e) = "Number"
        THEN Ok(Number(GivenBy(Unwrap(BinOpOp(bin_op)).green.kind,
                               NumberOf(lhs, e), NumberOf(rhs, e))))
        ELSE Err([name |-> "BinOpOnNonNumbers",
                  lhs_ty |-> TypeOfOperand(lhs, e),
                  rhs_ty |-> TypeOfOperand(rhs, e)],
                 text_range(bin_op))

-----------------------------------------------------------------------------
(* Conditionals.                                                           *)

\* The Root's only item, an `if`.
TheIf == TopItems[1]

TheCondition == Unwrap(IfCondition(TheIf))

\* No expression within the branch was evaluated.
Untouched(branch) ==
    \A event \in ExprEvents(log) : ~Within(event.range, text_range(branch))

\* The commands the evaluation ran.
Spawned == SelectSeq(log, LAMBDA event : event.ev = "spawn")

\* C14: when the condition of an `if` evaluates to a value that is no Bool
\* the evaluation fails with NonBoolCond at exactly the range of the
\* condition, not that of the whole `if`, and neither branch is evaluated.
C14_NonBoolCond ==
    Evaluated /\ output.green_node \in IfTrees
        /\ OperandSucceeds(TheCondition, env)
        /\ TypeOfOperand(TheCondition, env) # "Bool"
        =>
        /\ result = Err(ErrorKind("NonBoolCond"), text_range(TheCondition))
        /\ text_range(TheCondition) # text_range(TheIf)
        /\ Untouched(Unwrap(IfTrueBranch(TheIf)))
        /\ Untouched(Unwrap(IfFalseBranch(TheIf)))
        /\ Spawned = <<>>

\* `if "hello" then { 10 - 1 } else { 100 / 2 }` failed at 3..10.
C14_Witness ==
    /\ Evaluated
    /\ output.green_node =
          RootOf(<<IfOf(StringOf("hello"),
                        BlockOf(<<BinOpOf(DigitsOf("10"), "Minus", DigitsOf("1"))>>),
                        BlockOf(<<BinOpOf(DigitsOf("100"), "Slash", DigitsOf("2"))>>))>>)
    /\ result = Err(ErrorKind("NonBoolCond"), <<3, 10>>)
    /\ Cardinality(ExprEvents(log)) = 2

\* The Bool a condition that succeeds with a Bool has.
BoolOf(condition, e) ==
    CASE IsTokenOf(condition, {"True"})  -> TRUE
      [] IsTokenOf(condition, {"False"}) -> FALSE
      [] IsNodeOf(condition, "BindingUsage") ->
            get_binding(e, Unwrap(BindingUsageName(condition)).green.text).bool

\* What a branch gives when it is evaluated on its own.
BranchResult(branch) ==
    CASE branch.green = BlockOf(<<BinOpOf(DigitsOf("10"), "Minus", DigitsOf("1"))>>) ->
            Ok(Number(9))
      [] branch.green = BlockOf(<<BinOpOf(DigitsOf("100"), "Slash", DigitsOf("2"))>>) ->
            Ok(Number(50))
      [] branch.green = BlockOf(<<CallWith("ls", <<StringOf("dir")>>)>>) -> Ok(Nil)
      [] branch.green = UsageOf("zz") ->
            Err(ErrorKind("BindingDoesNotExist"), text_range(branch))

\* The commands a branch runs when it is evaluated on its own.
BranchSpawns(branch) ==
    IF branch.green = BlockOf(<<CallWith("ls", <<StringOf("dir")>>)>>)
    THEN <<[ev |-> "spawn", path |-> "/bin/ls", args |-> <<"dir">>]>>
    ELSE <<>>

\* C15: with the condition true only the true branch is evaluated and its
\* value returned, with the condition false only the false branch; the
\* branch not taken is never evaluated, so an error or a command in it has
\* no effect.
C15_OneBranch ==
    Evaluated /\ output.green_node \in IfTrees
        /\ OperandSucceeds(TheCondition, env)
        /\ TypeOfOperand(TheCondition, env) = "Bool"
        =>
        LET taken     == IF BoolOf(TheCondition, env) THEN Unwrap(IfTrueBranch(TheIf))
                         ELSE Unwrap(IfFalseBranch(TheIf))
            not_taken == IF BoolOf(TheCondition, env) THEN Unwrap(IfFalseBranch(TheIf))
                         ELSE Unwrap(IfTrueBranch(TheIf))
        IN  /\ result = BranchResult(taken)
            /\ Spawned = BranchSpawns(taken)
            /\ Cardinality({event \in ExprEvents(log) : event.range = text_range(taken)}) = 1
            /\ Untouched(not_taken)

\* `if false then { ls "dir" } else { 10 - 1 }` gave 9 and ran no command.
C15_Witness ==
    /\ Evaluated
    /\ output.green_node =
          RootOf(<<IfOf(FalseToken,
                        BlockOf(<<CallWith("ls", <<StringOf("dir")>>)>>),
                        BlockOf(<<BinOpOf(DigitsOf("10"), "Minus", DigitsOf("1"))>>))>>)
    /\ result = Ok(Number(9))
    /\ Spawned = <<>>

-----------------------------------------------------------------------------
(* Calls.                                                                  *)

\* The Root's only item, a call.
TheCall == TopItems[1]

CalleeName == Unwrap(FunctionCallName(TheCall)).green.text

\* The parameter expressions of the call.
CallParams == Unwrap(FunctionCallParamExprs(TheCall))

\* The value of a literal, or of the usage of a binding the environment has.
ValueOfOperand(operand, e) ==
    CASE IsTokenOf(operand, {"Digits"})        -> Number(ParseDigits(operand.green.text))
      [] IsTokenOf(operand, {"StringLiteral"}) ->
            Str(SubSeq(operand.green.text, 2, Len(operand.green.text) - 1))
      [] IsTokenOf(operand, {"Atom"})          -> Str(operand.green.text)
      [] IsTokenOf(operand, {"True"})          -> Bool(TRUE)
      [] IsTokenOf(operand, {"False"})         -> Bool(FALSE)
      [] IsNodeOf(operand, "BindingUsage")     ->
            get_binding(e, Unwrap(BindingUsageName(operand)).green.text)

\* The call is one of a name bound to a lambda, with parameters that are all
\* evaluated without an error.
CallsLambda(e) ==
    /\ output.green_node \in CallTrees
    /\ HasBinding(e, CalleeName)
    /\ get_binding(e, CalleeName).ty = "Lambda"
    /\ \A i \in 1..Len(CallParams) : OperandSucceeds(CallParams[i], e)

\* The lambda the call is of, and the names of its parameters.
Callee(e) == get_binding(e, CalleeName).lambda

ParamNamesOf(e) == Unwrap(LambdaParamNames(Callee(e)))

\* The calls of Expr::eval in a scope within the caller's.
InsideEvents(lg, e) == {event \in ExprEvents(lg) : event.depth > Depth(e)}

\* C16: a lambda called with more parameters than it has names fails with
\* TooManyParams, one called with fewer with TooFewParams, both at the range
\* of the call's parameter list; no parameter is bound and the body is not
\* evaluated.  Only with as many parameters as names is the body evaluated.
C16_Arity ==
    Evaluated /\ CallsLambda(env) =>
        LET given  == Len(CallParams)
            wanted == Len(ParamNamesOf(env))
            range  == text_range(Unwrap(FunctionCallParams(TheCall)))
        IN  /\ given > wanted =>
                  /\ result = Err(ErrorKind("TooManyParams"), range)
                  /\ InsideEvents(log, env) = {}
            /\ given < wanted =>
                  /\ result = Err(ErrorKind("TooFewParams"), range)
                  /\ InsideEvents(log, env) = {}
            /\ given = wanted =>
                  /\ ~(result.tag = "Err" /\ result.kind.name \in {"TooManyParams", "TooFewParams"})
                  /\ \E event \in InsideEvents(log, env) :
                        event.range = text_range(Unwrap(LambdaBodyExpr(Callee(env))))

\* `f1 5 "hi"` failed with TooManyParams at 3..9.
C16_Witness ==
    /\ Evaluated
    /\ output.green_node = RootOf(<<CallWith("f1", <<DigitsOf("5"), StringOf("hi")>>)>>)
    /\ result = Err(ErrorKind("TooManyParams"), <<3, 9>>)

\* What the body of the lambda bound to the name gives in the scope.
BodyResult(name, scope) ==
    CASE name = "f0" -> Ok(Number(100))
      [] name \in {"f1", "f2"} -> Ok(scope.bindings["a"])
      [] name = "g" ->
            IF HasBinding(scope, "a") THEN Ok(get_binding(scope, "a"))
            ELSE Err(ErrorKind("BindingDoesNotExist"), <<3, 5>>)

\* The fresh child scope of the caller's in which each parameter name is
\* bound to the value of the parameter at its place.
CallScope(e) ==
    [bindings |-> [n \in {ParamNamesOf(e)[i] : i \in 1..Len(ParamNamesOf(e))} |->
                      ValueOfOperand(
                          CallParams[CHOOSE i \in 1..Len(ParamNamesOf(e)) : ParamNamesOf(e)[i] = n],
                          e)],
     parent   |-> e,
     commands |-> e.commands]

\* C17: when the name of a call is bound to a lambda and the parameters are
\* as many as its names, every parameter expression is evaluated in the
\* caller's environment, the i-th name is bound to the i-th value in a fresh
\* child scope, the body is evaluated in that scope and its value is the
\* value of the call; a lambda without parameters is called by its bare
\* name; the caller's bindings are unchanged afterwards.
C17_LambdaCall ==
    [][ Evaluates /\ CallsLambda(env) /\ Len(CallParams) = Len(ParamNamesOf(env)) =>
          /\ \A i \in 1..Len(CallParams) :
                \E event \in ExprEvents(log') :
                    /\ event.range = text_range(CallParams[i])
                    /\ event.env = env
          /\ \A event \in InsideEvents(log', env) :
                /\ event.range = text_range(Unwrap(LambdaBodyExpr(Callee(env))))
                /\ event.env = CallScope(env)
          /\ InsideEvents(log', env) # {}
          /\ result' = BodyResult(CalleeName, CallScope(env))
          /\ env' = env
      ]_vars

\* `f2 5 "hi"` gave 5, as in call_lambda_with_several_params.
C17_Witness ==
    /\ Evaluated
    /\ output.green_node = RootOf(<<CallWith("f2", <<DigitsOf("5"), StringOf("hi")>>)>>)
    /\ result = Ok(Number(5))
    /\ \E event \in ExprEvents(log) :
          /\ event.depth = Depth(env) + 1
          /\ event.env.bindings = [a |-> Number(5), b |-> Str("hi")]

\* The block `{ let a = 2 \n g }`, where g is bound outside to `|| $a`.
RebindThenCall == BlockOf(<<BindingDefOf("a", DigitsOf("2")), CallOf("g")>>)

\* C18: a Lambda value holds no environment; each call makes a child of the
\* caller's environment, so a `$name` in the body that is no parameter is
\* looked up in the scopes of whoever calls the lambda, at the time of the
\* call, not in those where the lambda expression was evaluated.
C18_DynamicScoping ==
    /\ Evaluated /\ output.green_node = DefineThenCallTree =>
          /\ result = Ok(Number(2))
          /\ "h" \in DOMAIN env.bindings
          /\ env.bindings["h"] =
                [ty |-> "Lambda", lambda |-> Syntax(LambdaOf(<<>>, UsageOf("a")), 8)]
          /\ \E event \in ExprEvents(log) :
                /\ event.range = <<11, 13>>
                /\ event.depth = Depth(env) + 2
                /\ event.env.bindings = <<>>
                /\ event.env.parent.bindings = [a |-> Number(2)]
                /\ event.env.parent.parent = env
    /\ Evaluated /\ output.green_node \in ScopeTrees
          /\ TopItems[1].green = RebindThenCall
          /\ HasBinding(env, "g")
          => \E event \in ItemResults(log) :
                /\ event.depth = Depth(env)
                /\ event.range = text_range(TopItems[1])
                /\ event.res = Ok(Number(2))
    /\ Evaluated /\ CallsLambda(env) /\ CalleeName = "g" /\ CallParams = <<>> =>
          result = IF HasBinding(env, "a") THEN Ok(get_binding(env, "a"))
                   ELSE Err(ErrorKind("BindingDoesNotExist"), <<3, 5>>)

\* `let h = || $a` was evaluated where a is 7, and h called where a is 2
\* gave 2.
C18_Witness ==
    /\ Evaluated
    /\ output.green_node = DefineThenCallTree
    /\ "a" \in DOMAIN env.bindings
    /\ env.bindings["a"] = Number(7)
    /\ result = Ok(Number(2))

\* The name of the call is bound to a lambda.
BoundToLambda(e) == HasBinding(e, CalleeName) /\ get_binding(e, CalleeName).ty = "Lambda"

\* The command cache has an entry of the name of the call.
InCommandCache(e) == CalleeName \in DOMAIN e.commands

\* The call failed with FuncOrCommandDoesNotExist at the range of the name.
FailsAsUnknown ==
    result = Err(ErrorKind("FuncOrCommandDoesNotExist"),
                 text_range(Unwrap(FunctionCallName(TheCall))))

\* C19 as stated: the call of a name that is neither bound to a lambda nor
\* an entry of the command cache fails with FuncOrCommandDoesNotExist at the
\* range of the name only.
C19_NeitherLambdaNorCommand ==
    Evaluated /\ output.green_node \in CallTrees
        /\ ~BoundToLambda(env) /\ ~InCommandCache(env)
        => FailsAsUnknown

\* C19, amended: the call of a name that no scope binds and the command
\* cache has no entry of fails with FuncOrCommandDoesNotExist at the range
\* of the name only, not that of the parameters, whatever the parameters
\* are; none of them is evaluated.
C19_UnboundAndNoCommand ==
    Evaluated /\ output.green_node \in CallTrees
        /\ ~HasBinding(env, CalleeName) /\ ~InCommandCache(env)
        =>
        /\ FailsAsUnknown
        /\ result.range = <<0, Len(CalleeName)>>
        /\ CallParams # <<>> => result.range # text_range(TheCall)
        /\ Cardinality(ExprEvents(log)) = 1

\* `nope 5 "hi"` failed at 0..4.
C19_Witness ==
    /\ Evaluated
    /\ output.green_node = RootOf(<<CallWith("nope", <<DigitsOf("5"), StringOf("hi")>>)>>)
    /\ result = Err(ErrorKind("FuncOrCommandDoesNotExist"), <<0, 4>>)

\* The call failed with CallNonLambda that carries the type of the value the
\* name is bound to, at the range of the name.
FailsAsNonLambda(e) ==
    result = Err([name |-> "CallNonLambda", ty |-> get_binding(e, CalleeName).ty],
                 text_range(Unwrap(FunctionCallName(TheCall))))

\* C20 as stated: the call of a name bound to a value that is no lambda
\* fails with CallNonLambda that carries the type of the value, at the
\* range of the name.
C20_CallNonLambda ==
    Evaluated /\ output.green_node \in CallTrees
        /\ HasBinding(env, CalleeName) /\ ~BoundToLambda(env)
        => FailsAsNonLambda(env)

\* C20, amended: the call of a name bound to a value that is no lambda, the
\* command cache having no entry of the name, fails with CallNonLambda that
\* carries the type of the value, at the range of the name.
C20_CallNonLambdaNoCommand ==
    Evaluated /\ output.green_node \in CallTrees
        /\ HasBinding(env, CalleeName) /\ ~BoundToLambda(env)
        /\ ~InCommandCache(env)
        =>
        /\ FailsAsNonLambda(env)
        /\ result.range = <<0, Len(CalleeName)>>
        /\ Cardinality(ExprEvents(log)) = 1

\* `foo 5` with foo bound to 100 failed with the type Number at 0..3.
C20_Witness ==
    /\ Evaluated
    /\ output.green_node = RootOf(<<CallWith("foo", <<DigitsOf("5")>>)>>)
    /\ get_binding(env, "foo") = Number(100)
    /\ result = Err([name |-> "CallNonLambda", ty |-> "Number"], <<0, 3>>)

-----------------------------------------------------------------------------
(* The lookup of the name of a call.                                       *)

\* What the lookup of the name of the call gave.
Looked == get_func_or_command(env, CalleeName)

\* The lookup gave the lambda the name is bound to, and the call was one of
\* that lambda: no command was run.
GaveLambda ==
    /\ Looked = [tag |-> "Func", lambda |-> get_binding(env, CalleeName).lambda]
    /\ Spawned = <<>>

\* The lookup gave the path the command cache has for the name, and this is
\* the path of every command the call ran.
GaveCommand ==
    /\ Looked = [tag |-> "Command", path |-> env.commands[CalleeName]]
    /\ \A i \in 1..Len(Spawned) : Spawned[i].path = env.commands[CalleeName]
    /\ InsideEvents(log, env) = {}

\* C21 as stated: a name bound to a lambda in some scope of the chain gives
\* that lambda; a name bound to another value, or not bound, gives the path
\* the command cache has for it; otherwise the result is "not found".
C21_ResolutionOrder ==
    Evaluated /\ output.green_node \in CallTrees =>
        IF BoundToLambda(env) THEN GaveLambda
        ELSE IF InCommandCache(env) THEN GaveCommand
        ELSE /\ Looked = [tag |-> "Err", kind |-> ErrorKind("FuncOrCommandDoesNotExist")]
             /\ FailsAsUnknown

\* C21, amended: a name bound to a lambda in some scope of the chain gives
\* that lambda; a name bound to another value, or not bound, gives the path
\* the command cache has for it; otherwise a name bound to a value that is
\* no lambda gives CallNonLambda with the type of the value, and a name not
\* bound gives "not found".
C21_ResolutionOrderWithNonLambda ==
    Evaluated /\ output.green_node \in CallTrees =>
        IF BoundToLambda(env) THEN GaveLambda
        ELSE IF InCommandCache(env) THEN GaveCommand
        ELSE IF HasBinding(env, CalleeName)
        THEN /\ Looked = [tag |-> "Err",
                          kind |-> [name |-> "CallNonLambda",
                                    ty |-> get_binding(env, CalleeName).ty]]
             /\ FailsAsNonLambda(env)
        ELSE /\ Looked = [tag |-> "Err", kind |-> ErrorKind("FuncOrCommandDoesNotExist")]
             /\ FailsAsUnknown

\* `f0`, bound to a lambda in the scope around and an entry of the command
\* cache as well, was called as the lambda and gave 100.
C21_Witness ==
    /\ Evaluated
    /\ output.green_node = RootOf(<<CallOf("f0")>>)
    /\ "f0" \in DOMAIN env.commands
    /\ "f0" \notin DOMAIN env.bindings
    /\ HasBinding(env, "f0")
    /\ result = Ok(Number(100))
    /\ Spawned = <<>>

-----------------------------------------------------------------------------
(* Binding usages.                                                         *)

RECURSIVE ScopeChain(_)
\* The scopes of the chain, the innermost first.
ScopeChain(e) ==
    IF e.parent = NoParent THEN <<e>> ELSE <<e>> \o ScopeChain(e.parent)

\* The places in the chain of the scopes that bind the name.
BindersOf(e, name) ==
    {i \in 1..Len(ScopeChain(e)) : name \in DOMAIN ScopeChain(e)[i].bindings}

\* The value the nearest scope that binds the name has for it.
NearestValue(e, name) ==
    LET nearest == CHOOSE i \in BindersOf(e, name) : \A j \in BindersOf(e, name) : i <= j
    IN  ScopeChain(e)[nearest].bindings[name]

\* The Root's last item, a binding usage.
TheUsage == TopItems[Len(TopItems)]

UsedName == Unwrap(BindingUsageName(TheUsage)).green.text

\* C22: `$name` gives the value the nearest scope of the chain that binds
\* the name has for it; when no scope binds it the evaluation fails with
\* BindingDoesNotExist at the range of the whole usage, the `$` and the
\* name.
C22_BindingUsage ==
    Evaluated /\ output.green_node \in UsageTrees =>
        IF BindersOf(env, UsedName) # {}
        THEN result = Ok(NearestValue(env, UsedName))
        ELSE /\ result = Err(ErrorKind("BindingDoesNotExist"), text_range(TheUsage))
             /\ result.range[2] - result.range[1] = 1 + Len(UsedName)
             /\ output.green_node = RootOf(<<UsageOf("test")>>) => result.range = <<0, 5>>

\* `$a` gave the 7 of the scope, not the 1 of the scope around it.
C22_Witness ==
    /\ Evaluated
    /\ output.green_node = RootOf(<<DigitsOf("5"), UsageOf("a")>>)
    /\ BindersOf(env, "a") = {1, 2}
    /\ result = Ok(Number(7))

-----------------------------------------------------------------------------
(* Commands.                                                               *)

\* The type of the value of a parameter that succeeds.
TypeOfParam(param, e) ==
    IF IsNodeOf(param, "Block") THEN "Nil"
    ELSE IF IsTokenOf(param, {"Atom"}) THEN "Str"
    ELSE TypeOfOperand(param, e)

\* The call is one of a command: the name is an entry of the command cache
\* and not bound to a lambda, and every parameter is evaluated without an
\* error.
CallsCommand(e) ==
    /\ ~BoundToLambda(e)
    /\ InCommandCache(e)
    /\ \A i \in 1..Len(CallParams) : OperandSucceeds(CallParams[i], e)

\* The places of the parameters whose value has no display representation.
Undisplayable(e) ==
    {i \in 1..Len(CallParams) : TypeOfParam(CallParams[i], e) \notin {"Number", "Str"}}

\* C23: when a call is one of a command every parameter value must have a
\* display representation, which a Number and a Str have and a Bool, a
\* Lambda and Nil have not; the first parameter in order without one makes
\* the call fail with UndisplayableCommandArg at the range of that
\* parameter, and no process is spawned.
C23_UndisplayableArg ==
    Evaluated /\ output.green_node \in CommandCallTrees \cup CallTrees
        /\ CallsCommand(env) /\ Undisplayable(env) # {}
        =>
        LET first == CHOOSE i \in Undisplayable(env) : \A j \in Undisplayable(env) : i <= j
        IN  /\ result = Err(ErrorKind("UndisplayableCommandArg"), text_range(CallParams[first]))
            /\ Spawned = <<>>

\* `ls 5 true` failed at the range of `true`, 5..9.
C23_Witness ==
    /\ Evaluated
    /\ output.green_node = RootOf(<<CallWith("ls", <<DigitsOf("5"), TrueToken>>)>>)
    /\ result = Err(ErrorKind("UndisplayableCommandArg"), <<5, 9>>)
    /\ Spawned = <<>>

\* The text a command is given for a parameter that has a display
\* representation.
ExpectedArg(param, e) ==
    CASE param.green = DigitsOf("5")   -> "5"
      [] param.green = DigitsOf("012") -> "12"
      [] param.green = StringOf("hi")  -> "hi"
      [] param.green = AtomOf("x")     -> "x"
      [] param.green = UsageOf("a")    ->
            IF get_binding(e, "a") = Number(1) THEN "1" ELSE "7"

\* C24: the call of a name that is not bound and is an entry of the command
\* cache spawns that executable once, with the display strings of the
\* parameters in order, and gives Nil when the process ran; when the process
\* could not be spawned the call fails with FailedRunningCommand at the
\* range of the name.
C24_CommandFallback ==
    Evaluated /\ output.green_node \in CommandCallTrees \cup CallTrees
        /\ ~HasBinding(env, CalleeName)
        /\ CallsCommand(env) /\ Undisplayable(env) = {}
        =>
        /\ Spawned = <<[ev   |-> "spawn",
                        path |-> env.commands[CalleeName],
                        args |-> [i \in 1..Len(CallParams) |-> ExpectedArg(CallParams[i], env)]]>>
        /\ env.commands[CalleeName] # "/gone" => result = Ok(Nil)
        /\ env.commands[CalleeName] = "/gone" =>
              result = Err(ErrorKind("FailedRunningCommand"), <<0, Len(CalleeName)>>)

\* `ls 012 "hi"` ran /bin/ls with the arguments 12 and hi, and gave Nil.
C24_Witness ==
    /\ Evaluated
    /\ output.green_node = RootOf(<<CallWith("ls", <<DigitsOf("012"), StringOf("hi")>>)>>)
    /\ Spawned = <<[ev |-> "spawn", path |-> "/bin/ls", args |-> <<"12", "hi">>]>>
    /\ result = Ok(Nil)

-----------------------------------------------------------------------------
(* Failures.                                                               *)

\* The number of blocks around the item that fails: the Root's second item
\* is the item itself or the outermost block.
RECURSIVE BlocksAround(_)
BlocksAround(node) ==
    IF IsNodeOf(node, "Block") THEN 1 + BlocksAround(Items(node)[1]) ELSE 0

RECURSIVE Innermost(_)
\* The item that fails, within the blocks.
Innermost(node) == IF IsNodeOf(node, "Block") THEN Innermost(Items(node)[1]) ELSE node

\* The error the item that fails gives on its own.
OwnError(failing, e) ==
    CASE failing.green = UsageOf("zz") ->
            Err(ErrorKind("BindingDoesNotExist"), text_range(failing))
      [] failing.green = BinOpOf(DigitsOf("1"), "Plus", StringOf("s")) ->
            Err([name |-> "BinOpOnNonNumbers", lhs_ty |-> "Number", rhs_ty |-> "Str"],
                text_range(failing))
      [] failing.green = CallOf("nope") ->
            Err(ErrorKind("FuncOrCommandDoesNotExist"), text_range(failing))
      [] failing.green = CallOf("fb") ->
            IF HasBinding(e, "fb")
            THEN Err(ErrorKind("BindingDoesNotExist"), <<4, 7>>)
            ELSE Err(ErrorKind("FuncOrCommandDoesNotExist"), text_range(failing))

\* The results of items that failed, as the log has them in order.
Failures == SelectSeq(log, LAMBDA event : event.ev = "item" /\ ~IsOk(event.res))

\* C25: the first item of a sequence that fails ends the sequence: no later
\* item of it is evaluated, the error goes unchanged, with its kind and its
\* range, through every block, call and Root around it, and the result of
\* the program is that one error.
C25_ErrorPropagation ==
    Evaluated /\ output.green_node \in PropagationTrees =>
        LET failing == Innermost(TopItems[2])
            blocks  == BlocksAround(TopItems[2])
        IN  /\ text_range(failing)[1] = 10 + blocks
            /\ result = OwnError(failing, env)
            /\ Spawned = <<>>
            /\ \A i \in 1..Len(Failures) : Failures[i].res = result
            /\ Len(Failures) =
                  blocks + 1 + (IF failing.green = CallOf("fb") /\ HasBinding(env, "fb")
                                THEN 1 ELSE 0)
            /\ \A event \in ExprEvents(log) :
                  event.depth <= Depth(env) + blocks => event.range[1] < text_range(failing)[2]

\* `$zz` failed within two blocks; the error went through both and the Root,
\* and none of the three `ls "dir"` after it was run.
C25_Witness ==
    /\ Evaluated
    /\ output.green_node =
          RootOf(<<BindingDefOf("c", DigitsOf("1")),
                   BlockOf(<<BlockOf(<<UsageOf("zz"), RunsLs>>), RunsLs>>),
                   RunsLs>>)
    /\ result = Err(ErrorKind("BindingDoesNotExist"), <<12, 15>>)
    /\ Len(Failures) = 3
    /\ Spawned = <<>>

-----------------------------------------------------------------------------
(* The command cache.                                                      *)

\* The last operation was a rescan that succeeded.
RescanSucceeded == log # <<>> /\ log[1].ev = "rescan" /\ result = [tag |-> "Ok"]

\* The file names the directories list.
ListedIn(search_paths) ==
    UNION {{ReadDir(search_paths[i])[j].name : j \in 1..Len(ReadDir(search_paths[i]))} :
              i \in 1..Len(search_paths)}

\* The command name of a file name: the name itself, but for a name that is
\* no UTF-8.
NameOf(file_name) == IF file_name = "t\\xFF" THEN "t\\uFFFD" ELSE file_name

\* The directory has an entry of the file name.
Lists(dir, file_name) == \E j \in 1..Len(ReadDir(dir)) : ReadDir(dir)[j].name = file_name

\* The place in the search paths of the last directory that lists the file
\* name.
LastListing(search_paths, file_name) ==
    CHOOSE i \in 1..Len(search_paths) :
        /\ Lists(search_paths[i], file_name)
        /\ \A j \in (i + 1)..Len(search_paths) : ~Lists(search_paths[j], file_name)

\* C26: after a successful rescan the mapping has exactly the entries the
\* given directories list and none stored before; of a file name two
\* directories list, the entry of the later directory wins; get returns the
\* stored path or None and never changes the mapping.
C26_CommandsCache ==
    [][ /\ RescanSucceeded' =>
              LET search_paths == log'[1].search_paths
              IN  /\ DOMAIN env'.commands = {NameOf(file) : file \in ListedIn(search_paths)}
                  /\ \A file \in ListedIn(search_paths) :
                        env'.commands[NameOf(file)] =
                            PathIn(search_paths[LastListing(search_paths, file)], file)
        /\ log' # <<>> /\ log'[1].ev = "get" =>
              /\ env' = env
              /\ result'.path = IF log'[1].command_name \in DOMAIN env.commands
                                THEN <<env.commands[log'[1].command_name]>>
                                ELSE <<>>
      ]_vars

\* After /bin and /usr/bin were rescanned, in this order, ls is the one of
\* /usr/bin, and get has just returned it.
C26_Witness ==
    /\ log = <<[ev |-> "get", command_name |-> "ls"]>>
    /\ DOMAIN env.commands = {"ls", "cat", "env", "t\\uFFFD"}
    /\ env.commands["cat"] = "/bin/cat"
    /\ result = [tag |-> "Got", path |-> <<"/usr/bin/ls">>]

-----------------------------------------------------------------------------
(* The order of failures in a call.                                        *)

\* The places of the parameters whose evaluation fails.
FailingParams(e) == {i \in 1..Len(CallParams) : ~OperandSucceeds(CallParams[i], e)}

\* The ranges of the parameter expressions evaluated, in the order of their
\* evaluation: the expressions evaluated in the caller's scope other than
\* the call itself.
ParamsEvaluated ==
    LET events == SelectSeq(log, LAMBDA event : /\ event.ev = "expr"
                                                /\ event.depth = Depth(env)
                                                /\ event.range # text_range(TheCall))
    IN  [i \in 1..Len(events) |-> events[i].range]

\* C27: the name of a call is resolved before any parameter is evaluated, so
\* the call of a name that cannot be resolved fails with the error of the
\* name even when a parameter would fail; the parameters are evaluated from
\* left to right up to the first that fails, before the number of parameters
\* and their display representations are looked at, so the error of a
\* parameter comes before TooFewParams, TooManyParams and
\* UndisplayableCommandArg.
C27_OrderOfFailures ==
    Evaluated /\ output.green_node \in CallTrees \cup CommandCallTrees
        /\ FailingParams(env) # {}
        =>
        LET first == CHOOSE i \in FailingParams(env) : \A j \in FailingParams(env) : i <= j
        IN  IF ~BoundToLambda(env) /\ ~InCommandCache(env)
            THEN /\ IF HasBinding(env, CalleeName) THEN FailsAsNonLambda(env)
                    ELSE FailsAsUnknown
                 /\ ParamsEvaluated = <<>>
            ELSE /\ result = Err(ErrorKind("BindingDoesNotExist"),
                                 text_range(CallParams[first]))
                 /\ ParamsEvaluated = [i \in 1..first |-> text_range(CallParams[i])]
                 /\ InsideEvents(log, env) = {}
                 /\ Spawned = <<>>

\* `ls true $zz` failed with the error of `$zz`, not with that of `true`.
C27_Witness ==
    /\ Evaluated
    /\ output.green_node = RootOf(<<CallWith("ls", <<TrueToken, UsageOf("zz")>>)>>)
    /\ result = Err(ErrorKind("BindingDoesNotExist"), <<8, 11>>)
    /\ ParamsEvaluated = <<<<3, 7>>, <<8, 11>>>>

-----------------------------------------------------------------------------
(* The environment after a failure.                                        *)

\* The item is one of those that fail.
Fails(item) ==
    item.green \in { BindingDefOf("a", UsageOf("zz")),
                     BindingDefOf("c", BinOpOf(DigitsOf("1"), "Plus", StringOf("s"))),
                     UsageOf("zz") }

\* The number of items before the first that fails, or of all items.
ItemsBeforeFailure(items) ==
    IF \E i \in 1..Len(items) : Fails(items[i])
    THEN (CHOOSE i \in 1..Len(items) :
              Fails(items[i]) /\ \A j \in 1..(i - 1) : ~Fails(items[j])) - 1
    ELSE Len(items)

RECURSIVE AfterDefinitions(_, _, _)
\* The scope after the first n items, all binding definitions of a number,
\* have stored their bindings.
AfterDefinitions(e, items, n) ==
    IF n = 0 THEN e
    ELSE LET before == AfterDefinitions(e, items, n - 1)
             name   == Unwrap(BindingDefName(items[n])).green.text
             number == ParseDigits(Unwrap(BindingDefExpr(items[n])).green.text)
         IN  WithBinding(before, name, Number(number))

\* C28: when the right-hand expression of a binding definition fails no
\* binding is stored or overwritten for the name; when the evaluation of a
\* Root fails at an item, the bindings stored by the items before it remain
\* in the caller's environment and nothing of that item or a later one is
\* stored.
C28_EnvironmentOnFailure ==
    [][ Evaluates /\ output.green_node \in DefinitionTrees =>
          /\ env' = AfterDefinitions(env, TopItems, ItemsBeforeFailure(TopItems))
          /\ (ItemsBeforeFailure(TopItems) < Len(TopItems)) = ~IsOk(result')
          /\ TopItems # <<>> /\ TopItems[1].green = BindingDefOf("a", UsageOf("zz")) =>
                env' = env
      ]_vars

\* `let c = 1`, `let a = $zz`, `let a = 5` in a scope that binds a to 7: c is
\* stored, a is still 7.
C28_Witness ==
    /\ Evaluated
    /\ output.green_node = RootOf(<<BindingDefOf("c", DigitsOf("1")),
                                    BindingDefOf("a", UsageOf("zz")),
                                    BindingDefOf("a", DigitsOf("5"))>>)
    /\ DOMAIN env.bindings = {"a", "c"}
    /\ env.bindings["a"] = Number(7)
    /\ env.bindings["c"] = Number(1)
    /\ result = Err(ErrorKind("BindingDoesNotExist"), <<18, 21>>)

-----------------------------------------------------------------------------
(* The builder protocol *)

\* How many nodes a parser function has started and not yet finished while it
\* is at the given position: Parser::parse holds Root open from its first
\* statement to its last, parse_statement holds BindingDef, the loop of
\* parse_expr_bp holds BinOp only while the right operand is parsed,
\* parse_function_call holds FunctionCall and FunctionCallParams,
\* parse_lambda holds Lambda and LambdaParams and then Lambda alone, and
\* parse_binding_usage holds BindingUsage.
OpenNodes(pc) ==
    CASE pc \in {"parse_loop", "parse_after_item", "parse_finish"} -> 1
      [] pc \in {"statement_equals", "statement_expr", "statement_finish"} -> 1
      [] pc = "expr_finish_bin_op" -> 1
      [] pc \in {"function_call_loop", "function_call_after_param"} -> 2
      [] pc \in {"lambda_loop", "lambda_after_error", "lambda_body"} -> 2
      [] pc = "lambda_finish" -> 1
      [] pc = "binding_usage_finish" -> 1
      [] OTHER -> 0

RECURSIVE OpenNodesOf(_)
\* The nodes held open by all the calls on a stack.
OpenNodesOf(frames) ==
    IF frames = <<>> THEN 0
    ELSE OpenNodes(frames[1].pc) + OpenNodesOf(Tail(frames))

(* C29: builder protocol balance.  The nodes open in the builder are       *)
(* exactly the nodes the calls on the stack hold open, at every point of a *)
(* parse, error recovery and early returns at end of line or end of input  *)
(* included: a function enters holding none, so when it returns it has     *)
(* finished each node it started exactly once.  When Parser::parse has     *)
(* returned no node is open, the builder holds one element, and that       *)
(* element is the Root returned, whose leaves are all the input's lexemes. *)
C29_BuilderBalance ==
    /\ Len(p.builder.parents) = OpenNodesOf(stack)
    /\ Done =>
            /\ stack = <<>>
            /\ p.builder.parents = <<>>
            /\ Len(p.builder.children) = 1
            /\ output.green_node = p.builder.children[1]
            /\ ~output.green_node.isToken
            /\ output.green_node.kind = "Root"
            /\ Len(LeavesOf(output.green_node)) = Len(input)

\* A finished parse that reported an error and whose Root holds a node of a
\* function that starts nodes, closed although the input ended inside it.
C29_Witness ==
    /\ Done
    /\ p.errors # <<>>
    /\ p.builder.parents = <<>>
    /\ LET last == output.green_node.children[Len(output.green_node.children)]
       IN  /\ output.green_node.children # <<>>
           /\ ~last.isToken
           /\ last.kind \in {"BindingDef", "Lambda", "FunctionCall",
                             "BindingUsage", "BinOp"}

-----------------------------------------------------------------------------
(* Parameter matching *)

\* The call whose parameters are matched, and the definition's parameters.
MatchedCall(events) == events[1].call_params

MatchedDefinition(events) == events[1].def_params

\* How often an element occurs in a sequence.
Occurrences(elements, element) ==
    Cardinality({i \in DOMAIN elements : elements[i] = element})

\* The named parameters of the call that carry the name, in order.
NamedAs(call_params, name) ==
    SelectSeq(call_params, LAMBDA param : param.name = <<name>>)

PositionalOf(call_params) ==
    SelectSeq(call_params, LAMBDA param : param.name = <<>>)

\* The i-th definition parameter is the n-th of its name.
RankByName(def_params, i) ==
    Cardinality({j \in 1..i : def_params[j].name = def_params[i].name})

\* A named parameter of the call takes the i-th definition parameter.
TakenByName(call_params, def_params, i) ==
    RankByName(def_params, i) <= Len(NamedAs(call_params, def_params[i].name))

\* Some named parameter finds no definition parameter of its name left.
SomeNameNotFound(call_params, def_params) ==
    \E name \in ParamNames :
        Len(NamedAs(call_params, name))
            > Cardinality({j \in DOMAIN def_params : def_params[j].name = name})

\* The definition parameters no named parameter takes.
RemainingDefs(call_params, def_params) ==
    {i \in DOMAIN def_params : ~TakenByName(call_params, def_params, i)}

\* The i-th definition parameter is the n-th of the remaining ones.
RankOfRemaining(call_params, def_params, i) ==
    Cardinality({j \in RemainingDefs(call_params, def_params) : j <= i})

\* The value the i-th definition parameter is to get, if any.
ExpectedVal(call_params, def_params, i) ==
    IF TakenByName(call_params, def_params, i)
    THEN <<NamedAs(call_params, def_params[i].name)[RankByName(def_params, i)].val>>
    ELSE IF RankOfRemaining(call_params, def_params, i) <= Len(PositionalOf(call_params))
    THEN <<PositionalOf(call_params)[RankOfRemaining(call_params, def_params, i)].val>>
    ELSE def_params[i].val

\* Every definition parameter with the value it is to get.
ExpectedParams(call_params, def_params) ==
    [i \in DOMAIN def_params |->
        CompleteParam(def_params[i].name,
                      Unwrap(ExpectedVal(call_params, def_params, i)))]

(* C30: prototype parameter matching.  params::eval gives FuncParamNotFound *)
(* when a named call parameter finds no remaining definition parameter of  *)
(* its name; otherwise TooManyFuncParams when there are more positional    *)
(* parameters than remaining definition parameters; otherwise              *)
(* NotEnoughFuncParams when a definition parameter is neither named, nor   *)
(* reached by a positional parameter, nor has a default; otherwise Ok.     *)
(* When it gives Ok every definition parameter is bound exactly once: to   *)
(* the value named for it, else to the positional value of its place among *)
(* the remaining ones, else to its default.                                *)
C30_ParamMatching ==
    result # NoResult =>
        LET call_params == MatchedCall(log)
            def_params == MatchedDefinition(log)
            remaining == RemainingDefs(call_params, def_params)
            unfilled == {i \in DOMAIN def_params :
                            ExpectedVal(call_params, def_params, i) = <<>>}
        IN  /\ IF SomeNameNotFound(call_params, def_params)
               THEN result = ParamsErr("FuncParamNotFound")
               ELSE IF Len(PositionalOf(call_params)) > Cardinality(remaining)
               THEN result = ParamsErr("TooManyFuncParams")
               ELSE IF unfilled # {}
               THEN result = ParamsErr("NotEnoughFuncParams")
               ELSE result.tag = "Ok"
            /\ result.tag = "Ok" =>
                    LET expected == ExpectedParams(call_params, def_params)
                    IN  /\ Len(result.val) = Len(def_params)
                        /\ \A i \in DOMAIN expected :
                                Occurrences(result.val, expected[i])
                                    = Occurrences(expected, expected[i])

\* A call with a named and a positional parameter of a function of three
\* parameters, the third bound to its default.
C30_Witness ==
    /\ result # NoResult
    /\ result.tag = "Ok"
    /\ Len(result.val) = 3
    /\ Len(NamedAs(MatchedCall(log), "b")) = 1
    /\ Len(PositionalOf(MatchedCall(log))) = 1
    /\ [i \in 1..3 |-> MatchedDefinition(log)[i].name] = <<"a", "b", "c">>
    /\ \E i \in DOMAIN result.val : result.val[i].val = DefaultExprs[3]

=============================================================================
